---- MODULE Spec2Model ----
(***************************************************************************)
(* A model of gtp (JonasBak/gtp): the atom matcher, the token stream       *)
(* (LexemIter), the FIRST-set resolver, the recursive-descent engine       *)
(* (Grammar::parse and friends in src/src/parsing.rs) and the bootstrap    *)
(* grammar with its lowering pass (src/src/grammar.rs).                    *)
(*                                                                         *)
(* Strings are sequences of characters; a character is a TLA+ string.      *)
(* Offsets into a string are byte offsets, as in Rust: a character outside *)
(* ASCII occupies more than one byte (Width).                              *)
(***************************************************************************)
EXTENDS Integers, Sequences, FiniteSets, TLC

(***************************************************************************)
(* Characters and strings                                                  *)
(***************************************************************************)

\* U+00E9 (e acute): two bytes in UTF-8.
EAcute == "U+00E9"

MultiByte == {EAcute}

Width(c) == IF c \in MultiByte THEN 2 ELSE 1

Lower == <<"a","b","c","d","e","f","g","h","i","j","k","l","m",
           "n","o","p","q","r","s","t","u","v","w","x","y","z">>

Upper == <<"A","B","C","D","E","F","G","H","I","J","K","L","M",
           "N","O","P","Q","R","S","T","U","V","W","X","Y","Z">>

Range(f) == {f[i] : i \in DOMAIN f}

Digit == {"0","1","2","3","4","5","6","7","8","9"}

\* \p{Alphabetic}, restricted to the characters of the model
Alphabetic == Range(Lower) \cup Range(Upper) \cup {EAcute}

\* \w
Word == Alphabetic \cup Digit \cup {"_"}

IsAscii(s) == \A i \in DOMAIN s : s[i] \notin MultiByte

\* str::len(): the length in bytes
ByteLen(s) == Len(s) + Cardinality({i \in DOMAIN s : s[i] \in MultiByte})

\* byte offset of the end of the first n characters
ByteOf(s, n) == n + Cardinality({i \in 1..n : s[i] \in MultiByte})

\* is byte offset b a character boundary of s (str::is_char_boundary)
IsCharBoundary(s, b) ==
  IF IsAscii(s) THEN b \in 0..Len(s)
  ELSE \E n \in 0..Len(s) : ByteOf(s, n) = b

\* number of characters before byte offset b (b a character boundary)
CharsBefore(s, b) ==
  IF IsAscii(s) THEN b
  ELSE CHOOSE n \in 0..Len(s) : ByteOf(s, n) = b

\* str::starts_with, on the slice of s that begins after n characters
StartsWithAt(s, n, p) ==
  /\ n + Len(p) <= Len(s)
  /\ \A i \in 1..Len(p) : s[n + i] = p[i]

\* str::to_ascii_uppercase
UpperChar(c) ==
  IF \E i \in 1..26 : Lower[i] = c
  THEN Upper[CHOOSE i \in 1..26 : Lower[i] = c]
  ELSE c

to_ascii_uppercase(s) == [i \in 1..Len(s) |-> UpperChar(s[i])]

None == [some |-> FALSE]

Some(x) == [some |-> TRUE, v |-> x]

(***************************************************************************)
(* Regular expressions (the regex crate), for the patterns the grammars of *)
(* the repository use: a sequence of items, each a character class         *)
(* (literal, escaped literal, \d, \w, \p{Alphabetic}, '.', [..], [^..])    *)
(* with an optional greedy quantifier + * ?.                               *)
(***************************************************************************)

pAlphabetic == <<"p","{","A","l","p","h","a","b","e","t","i","c","}">>

RxMeta == {"+","*","?","(",")","|","[","]","{","}","^","$"}

RxClass(ok, neg, set, next) == [ok |-> ok, neg |-> neg, set |-> set, next |-> next]

RxBad == RxClass(FALSE, FALSE, {}, 0)

\* members of a bracket class, from index i up to the closing bracket
RECURSIVE RxBracket(_, _, _)
RxBracket(pat, i, acc) ==
  IF i > Len(pat) THEN RxBad
  ELSE IF pat[i] = "]" /\ acc /= {} THEN RxClass(TRUE, FALSE, acc, i + 1)
  ELSE RxBracket(pat, i + 1, acc \cup {pat[i]})

\* one character class starting at index i of the pattern
RxAtom(pat, i) ==
  LET c == pat[i] IN
  IF c = "\\" THEN
    IF i + 1 > Len(pat) THEN RxBad
    ELSE IF pat[i + 1] = "d" THEN RxClass(TRUE, FALSE, Digit, i + 2)
    ELSE IF pat[i + 1] = "w" THEN RxClass(TRUE, FALSE, Word, i + 2)
    ELSE IF StartsWithAt(pat, i, pAlphabetic) THEN RxClass(TRUE, FALSE, Alphabetic, i + 14)
    ELSE IF pat[i + 1] \in RxMeta \cup {".", "\\", "-", "/"} THEN RxClass(TRUE, FALSE, {pat[i + 1]}, i + 2)
    ELSE RxBad
  ELSE IF c = "[" THEN
    IF i + 1 <= Len(pat) /\ pat[i + 1] = "^"
    THEN LET b == RxBracket(pat, i + 2, {}) IN RxClass(b.ok, TRUE, b.set, b.next)
    ELSE RxBracket(pat, i + 1, {})
  ELSE IF c = "." THEN RxClass(TRUE, TRUE, {"\n"}, i + 1)
  ELSE IF c \in RxMeta THEN RxBad
  ELSE RxClass(TRUE, FALSE, {c}, i + 1)

RECURSIVE RxItems(_, _)
RxItems(pat, i) ==
  IF i > Len(pat) THEN [ok |-> TRUE, items |-> <<>>]
  ELSE LET a == RxAtom(pat, i) IN
       IF ~a.ok THEN [ok |-> FALSE, items |-> <<>>]
       ELSE LET q == IF a.next <= Len(pat) /\ pat[a.next] \in {"+", "*", "?"}
                     THEN pat[a.next] ELSE "1"
                n == IF q = "1" THEN a.next ELSE a.next + 1
                rest == RxItems(pat, n)
            IN [ok |-> rest.ok,
                items |-> <<[neg |-> a.neg, set |-> a.set, q |-> q]>> \o rest.items]

\* Regex::new: the compiled pattern, or an error
RegexNew(pat) == LET r == RxItems(pat, 1) IN [ok |-> r.ok, pat |-> pat, items |-> r.items]

RxIn(it, c) == IF it.neg THEN c \notin it.set ELSE c \in it.set

\* how many characters of s after the first n are in the class, at most max
RxRun(it, s, n, max) ==
  LET last == IF n + max < Len(s) THEN n + max ELSE Len(s) IN
  Cardinality({c \in (n + 1)..last : \A d \in (n + 1)..c : RxIn(it, s[d])})

\* leftmost-first match of items[k..] on s after n characters: the number
\* of characters before the end of the match, or -1
RECURSIVE RxMatch(_, _, _, _)
RECURSIVE RxTry(_, _, _, _, _, _)
RxMatch(items, k, s, n) ==
  IF k > Len(items) THEN n
  ELSE LET it == items[k]
           lo == IF it.q \in {"1", "+"} THEN 1 ELSE 0
           hi == RxRun(it, s, n, IF it.q \in {"1", "?"} THEN 1 ELSE Len(s))
       IN RxTry(items, k, s, n, hi, lo)

RxTry(items, k, s, n, take, lo) ==
  IF take < lo THEN -1
  ELSE LET r == RxMatch(items, k + 1, s, n + take) IN
       IF r >= 0 THEN r ELSE RxTry(items, k, s, n, take - 1, lo)

\* Regex::find on the slice of s after n characters: the leftmost match,
\* as character counts relative to s
RegexFind(m, s, n) ==
  LET starts == {p \in n..Len(s) : RxMatch(m.items, 1, s, p) >= 0} IN
  IF RxMatch(m.items, 1, s, n) >= 0
  THEN Some([start |-> n, end |-> RxMatch(m.items, 1, s, n)])
  ELSE IF starts = {} THEN None
  ELSE LET p == CHOOSE p \in starts : \A q \in starts : p <= q
       IN Some([start |-> p, end |-> RxMatch(m.items, 1, s, p)])

(***************************************************************************)
(* Grammar data (src/src/parsing.rs)                                       *)
(***************************************************************************)

Symbol(i) == [k |-> "Symbol", s |-> i]

Group(g) == [k |-> "Group", g |-> g]

Optional(o) == [k |-> "Optional", o |-> o]

Repeated(m) == [k |-> "Repeated", m |-> m]

Switch(a, b) == [k |-> "Switch", a |-> a, b |-> b]

Lexem(t, include_raw) == [k |-> "Lexem", t |-> t, include_raw |-> include_raw]

AST(r) == [k |-> "AST", t |-> r]

Rule(name, production) == [name |-> name, production |-> production]

Simple(name) == [k |-> "Simple", name |-> name]

Matched(name, m) == [k |-> "Matched", name |-> name, m |-> m]

Node(t, children) == [k |-> "Node", t |-> t, children |-> children]

Leaf(t, raw) == [k |-> "Leaf", t |-> t, raw |-> raw]

\* the struct as src/src/grammar.rs fills it: a third flag, the collapsing of
\* single-child nodes, which every grammar built without it has disabled
ParseOptions(ws, nl) ==
  [ignore_whitespace |-> ws, ignore_newline |-> nl, bubble_intermediate |-> FALSE]

\* a variant of ParseOptions::default that skips spaces and newlines, as
\* the options of the bootstrap grammar do
ParseOptions_skipping == ParseOptions(TRUE, TRUE)

\* ParseOptions::default
ParseOptions_default == ParseOptions(FALSE, FALSE)

Grammar(rules, atoms, options) == [rules |-> rules, atoms |-> atoms, options |-> options]

\* a variant of with_options that returns the grammar as it is
with_options_ignored(g, options) == g

\* Grammar::with_options, as the specification describes it: the same rules
\* and atoms with the given options
with_options(g, options) == [g EXCEPT !.options = options]

\* the collapsing of single-child nodes, as the specification describes it:
\* with the option enabled a Node with exactly one child is replaced by that
\* child
bubble(g, ast) ==
  IF g.options.bubble_intermediate /\ ast.k = "Node" /\ Len(ast.children) = 1
  THEN ast.children[1]
  ELSE ast

(***************************************************************************)
(* Atom matcher                                                            *)
(***************************************************************************)

\* Atom::match_input on the slice of s after n characters: the atom's name
\* and the matched length in bytes
Atom_match_input(atom, s, n) ==
  IF atom.k = "Simple"
  THEN IF StartsWithAt(s, n, atom.name)
       THEN Some([name |-> atom.name, i |-> ByteLen(atom.name)])
       ELSE None
  ELSE LET found(f) ==
             IF ~f.some THEN None
             ELSE IF f.v.start /= n THEN None
             ELSE Some([name |-> atom.name, i |-> ByteOf(s, f.v.end) - ByteOf(s, n)])
       IN found(RegexFind(atom.m, s, n))

\* find_map over the atoms: the result of the first atom, in declared order,
\* that matches
\* a variant of FindMapAtoms that prefers the longest match (maximal munch)
FindMapLongest(atoms, s, n) ==
  LET res == [k \in DOMAIN atoms |-> Atom_match_input(atoms[k], s, n)]
      hits == {k \in DOMAIN atoms : res[k].some}
      best == {k \in hits : \A j \in hits : res[j].v.i <= res[k].v.i}
  IN IF hits = {} THEN None
     ELSE res[CHOOSE k \in best : \A j \in best : k <= j]

RECURSIVE FindMapFrom(_, _, _, _)
FindMapFrom(atoms, k, s, n) ==
  LET try(r) == IF r.some THEN r ELSE FindMapFrom(atoms, k + 1, s, n)
  IN IF k > Len(atoms) THEN None ELSE try(Atom_match_input(atoms[k], s, n))

FindMapAtoms(atoms, s, n) == FindMapFrom(atoms, 1, s, n)

\* Grammar::match_input on the slice of s after n characters
Grammar_match_input(g, s, n) ==
  LET found(r) ==
        IF ~r.some THEN None
        ELSE Some([lexem |-> [t |-> r.v.name,
                              raw |-> SubSeq(s, n + 1, CharsBefore(s, ByteOf(s, n) + r.v.i))],
                   i |-> r.v.i])
  IN found(FindMapAtoms(g.atoms, s, n))

(***************************************************************************)
(* Token stream (LexemIter).  The grammar and the input are immutable      *)
(* references; the stream itself is the record [cursor, ok, peeked].       *)
(***************************************************************************)

\* Lexem::iter
Lexem_iter == [cursor |-> 0, ok |-> TRUE, peeked |-> None]

Ignored(g, c) ==
  \/ c = " " /\ g.options.ignore_whitespace
  \/ c = "\n" /\ g.options.ignore_newline

\* LexemIter::skip_ignored: the cursor after the loop, or a panic when
\* chars().nth(cursor) is None.  The loop looks at the cursor-th character
\* and advances the cursor by one byte.
skip_ignored(g, input, cursor) ==
  LET len == ByteLen(input)
      run == Cardinality({c \in cursor..(len - 1) :
               \A d \in cursor..c : d < Len(input) /\ Ignored(g, input[d + 1])})
      stop == cursor + run
  IN [panic |-> stop < len /\ stop >= Len(input), cursor |-> stop]

LexResult(st, tok, it) == [st |-> st, tok |-> tok, it |-> it]

\* a variant of shift that steps over a character no atom matches
shift_recovering(g, input, it) ==
  LET skipped(m, s2) ==
        IF s2.panic
        THEN LexResult("Panic", None, [it EXCEPT !.cursor = s2.cursor])
        ELSE LexResult("Ok", Some(m.v.lexem), [it EXCEPT !.cursor = s2.cursor])
      matched(s1, m) ==
        IF m.some
        THEN skipped(m, skip_ignored(g, input, s1.cursor + m.v.i))
        ELSE LexResult("Ok", None, [it EXCEPT !.cursor = s1.cursor + 1, !.ok = FALSE])
      scan(s1) ==
        IF s1.panic THEN LexResult("Panic", None, [it EXCEPT !.cursor = s1.cursor])
        ELSE IF ~IsCharBoundary(input, s1.cursor)
        THEN LexResult("Panic", None, [it EXCEPT !.cursor = s1.cursor])
        ELSE matched(s1, Grammar_match_input(g, input, CharsBefore(input, s1.cursor)))
  IN IF it.peeked.some THEN LexResult("Ok", it.peeked, [it EXCEPT !.peeked = None])
     ELSE IF it.cursor >= ByteLen(input) THEN LexResult("Ok", None, it)
     ELSE scan(skip_ignored(g, input, it.cursor))

\* LexemIter::shift
shift(g, input, it) ==
  LET skipped(m, s2) ==
        IF s2.panic
        THEN LexResult("Panic", None, [it EXCEPT !.cursor = s2.cursor])
        ELSE LexResult("Ok", Some(m.v.lexem), [it EXCEPT !.cursor = s2.cursor])
      matched(s1, m) ==
        IF m.some
        THEN skipped(m, skip_ignored(g, input, s1.cursor + m.v.i))
        ELSE LexResult("Ok", None, [it EXCEPT !.cursor = s1.cursor, !.ok = FALSE])
      scan(s1) ==
        IF s1.panic THEN LexResult("Panic", None, [it EXCEPT !.cursor = s1.cursor])
        ELSE IF ~IsCharBoundary(input, s1.cursor)
        THEN LexResult("Panic", None, [it EXCEPT !.cursor = s1.cursor])
        ELSE matched(s1, Grammar_match_input(g, input, CharsBefore(input, s1.cursor)))
  IN IF it.peeked.some THEN LexResult("Ok", it.peeked, [it EXCEPT !.peeked = None])
     ELSE IF it.cursor >= ByteLen(input) THEN LexResult("Ok", None, it)
     ELSE scan(skip_ignored(g, input, it.cursor))

\* a variant of peek that hands out the token without keeping it
peek_uncached(g, input, it) == shift(g, input, it)

\* LexemIter::peek
peek(g, input, it) ==
  LET keep(r) == IF r.st = "Panic" THEN r
                 ELSE LexResult("Ok", r.tok, [r.it EXCEPT !.peeked = r.tok])
  IN IF it.peeked.some THEN LexResult("Ok", it.peeked, it)
     ELSE keep(shift(g, input, it))

\* Iterator::next
next(g, input, it) == shift(g, input, it)

(***************************************************************************)
(* Production model and FIRST-set resolver                                 *)
(***************************************************************************)

\* a variant of nullable in which a Group of nullable members is nullable
RECURSIVE nullable_by_members(_)
nullable_by_members(p) ==
  CASE p.k = "Symbol" -> FALSE
    [] p.k = "Group" -> \A i \in DOMAIN p.g : nullable_by_members(p.g[i])
    [] p.k = "Switch" -> nullable_by_members(p.a) \/ nullable_by_members(p.b)
    [] p.k \in {"Optional", "Repeated"} -> TRUE

\* SymbolType::nullable
RECURSIVE nullable(_)
nullable(p) ==
  CASE p.k \in {"Symbol", "Group"} -> FALSE
    [] p.k = "Switch" -> nullable(p.a) \/ nullable(p.b)
    [] p.k \in {"Optional", "Repeated"} -> TRUE

\* SymbolType::first_symbol: the leading Symbols, in order
RECURSIVE first_symbol(_)
RECURSIVE first_symbol_group(_, _)
first_symbol(p) ==
  CASE p.k = "Symbol" -> <<p.s>>
    [] p.k = "Group" -> first_symbol_group(p.g, 1)
    [] p.k = "Optional" -> first_symbol(p.o)
    [] p.k = "Repeated" -> first_symbol(p.m)
    [] p.k = "Switch" -> first_symbol(p.a) \o first_symbol(p.b)

\* the loop of the Group arm, from member k on
first_symbol_group(g, k) ==
  IF k > Len(g) THEN <<>>
  ELSE first_symbol(g[k]) \o (IF ~nullable(g[k]) THEN <<>> ELSE first_symbol_group(g, k + 1))

\* .flatten() of a sequence of sequences
RECURSIVE Flatten(_)
Flatten(ss) == IF ss = <<>> THEN <<>> ELSE Head(ss) \o Flatten(Tail(ss))

\* The resolver recurses through rule references.  depth bounds the nesting
\* of first_from_rule calls: a result with div = TRUE stands for a recursion
\* that does not return.
FirstResult(div, v) == [div |-> div, v |-> v]

\* a variant of first_from_rule that does not return for a name without
\* rules
RECURSIVE first_from_rule_declared(_, _, _)
first_from_rule_declared(g, rule, depth) ==
  IF depth = 0 THEN FirstResult(TRUE, <<>>)
  ELSE
  LET rs == SelectSeq(g.rules, LAMBDA r : r.name = rule)
      of(sym) == IF sym.k = "Lexem" THEN FirstResult(FALSE, <<sym.t>>)
                 ELSE first_from_rule_declared(g, sym.t, depth - 1)
      flatten(fs) == FirstResult(\E j \in DOMAIN fs : fs[j].div,
                                 Flatten([j \in DOMAIN fs |-> fs[j].v]))
      flat_map(syms) == flatten([j \in DOMAIN syms |-> of(syms[j])])
  IN IF rs = <<>> THEN FirstResult(TRUE, <<>>)
     ELSE flatten([i \in DOMAIN rs |-> flat_map(first_symbol(rs[i].production))])

\* Grammar::first_from_rule: the token types, in order
RECURSIVE first_from_rule(_, _, _)
first_from_rule(g, rule, depth) ==
  IF depth = 0 THEN FirstResult(TRUE, <<>>)
  ELSE
  LET rs == SelectSeq(g.rules, LAMBDA r : r.name = rule)
      of(sym) == IF sym.k = "Lexem" THEN FirstResult(FALSE, <<sym.t>>)
                 ELSE first_from_rule(g, sym.t, depth - 1)
      flatten(fs) == FirstResult(\E j \in DOMAIN fs : fs[j].div,
                                 Flatten([j \in DOMAIN fs |-> fs[j].v]))
      flat_map(syms) == flatten([j \in DOMAIN syms |-> of(syms[j])])
  IN flatten([i \in DOMAIN rs |-> flat_map(first_symbol(rs[i].production))])

\* Grammar::first_from_symbol
first_from_symbol(g, s, depth) ==
  IF s.k = "Lexem" THEN FirstResult(FALSE, <<s.t>>)
  ELSE first_from_rule(g, s.t, depth)

Contains(v, t) == \E i \in DOMAIN v : v[i] = t

\* a variant of production_matches_lexem that accepts every token type
production_matches_any(g, p, t, depth) == FirstResult(FALSE, TRUE)

\* Grammar::production_matches_lexem: the fold visits every leading symbol
production_matches_lexem(g, p, t, depth) ==
  LET fold(fs) == FirstResult(\E i \in DOMAIN fs : fs[i].div,
                              \E i \in DOMAIN fs : Contains(fs[i].v, t))
      map(syms) == fold([i \in DOMAIN syms |-> first_from_symbol(g, syms[i], depth)])
  IN map(first_symbol(p))

(***************************************************************************)
(* Recursive-descent engine.  The call stack of parse, parse_rule,         *)
(* parse_symbol_type and parse_symbol is explicit: a frame is one          *)
(* activation, at its entry ("enter") or waiting for its callee ("wait").  *)
(* The engine state e is [lexems, stack, ret, status, result, taken]:      *)
(* ret is the value a callee has just returned with Ok; status is          *)
(* "running" during a parse and afterwards Ok, Err (Result::Err), Panic    *)
(* (the process aborts) or Diverge (the call never returns); taken lists   *)
(* the tokens that left the stream through next().                         *)
(***************************************************************************)

\* nesting bound of first_from_rule
MaxFirstDepth == 6

\* bound of the call stack
MaxStack == 64

\* bound on the tokens one stream hands out
MaxTaken == 128

s_START == <<"S","T","A","R","T">>

Frame(fn, pc, rule, s, parsed, k, alt) ==
  [fn |-> fn, pc |-> pc, rule |-> rule, s |-> s, parsed |-> parsed, k |-> k, alt |-> alt,
   mark |-> 0]

NoSymbol == Lexem(<<>>, FALSE)

ParseFrame == Frame("parse", "wait", <<>>, NoSymbol, <<>>, 0, 0)

RuleFrame(rule) == Frame("parse_rule", "enter", rule, NoSymbol, <<>>, 0, 0)

TypeFrame(s) == Frame("parse_symbol_type", "enter", <<>>, s, <<>>, 0, 0)

SymbolFrame(s) == Frame("parse_symbol", "enter", <<>>, s, <<>>, 0, 0)

Top(e) == e.stack[Len(e.stack)]

Pop(stack) == SubSeq(stack, 1, Len(stack) - 1)

\* the engine stops with st; no frame and no partial tree is left
Stop(e, it, st) ==
  [e EXCEPT !.lexems = it, !.status = st, !.ret = None, !.result = None, !.stack = <<>>]

\* a variant of Fail that backtracks: an Err below an Optional or a Repeated
\* that was entered is swallowed, and that frame goes on with no children
Fail_backtracking(e, it, st) ==
  LET entered == {i \in 1..(Len(e.stack) - 1) :
                    /\ e.stack[i].fn = "parse_symbol_type"
                    /\ e.stack[i].pc = "wait"
                    /\ e.stack[i].s.k \in {"Optional", "Repeated"}}
  IN IF st = "Err" /\ entered /= {}
     THEN [e EXCEPT !.lexems = it, !.ret = Some(<<>>),
                    !.stack = SubSeq(e.stack, 1, CHOOSE i \in entered : \A j \in entered : j <= i)]
     ELSE Stop(e, it, st)

\* return Err(()) or a panic: every caller passes an Err on with the ?
\* operator, so an Err leaves all the callers at once, as a panic does
Fail(e, it, st) == Stop(e, it, st)

\* the top frame, now f, calls callee
Call(e, it, f, callee) ==
  IF Len(e.stack) >= MaxStack THEN Fail(e, it, "Diverge")
  ELSE [e EXCEPT !.lexems = it, !.ret = None,
                 !.stack = Append(Append(Pop(e.stack), f), callee)]

\* the top frame returns Ok(v) to its caller
Return(e, it, v) ==
  [e EXCEPT !.lexems = it, !.ret = Some(v), !.stack = Pop(e.stack)]

\* a variant of FindRule that takes the first rule of the name, whatever
\* the lookahead
FindRule_by_name(g, rule, t) ==
  LET cands == {k \in DOMAIN g.rules : g.rules[k].name = rule}
  IN IF cands = {} THEN [div |-> FALSE, alt |-> 0]
     ELSE [div |-> FALSE, alt |-> CHOOSE k \in cands : \A j \in cands : k <= j]

\* rules.iter().find(|r| production_matches_lexem(..)) over the rules named
\* rule: the index of the rule found, 0 for none
FindRule(g, rule, t) ==
  LET cands == {k \in DOMAIN g.rules : g.rules[k].name = rule}
      find(m) ==
        LET hits == {k \in cands : m[k].div \/ m[k].v} IN
        IF hits = {} THEN [div |-> FALSE, alt |-> 0]
        ELSE LET k == CHOOSE k \in hits : \A j \in hits : k <= j IN
             IF m[k].div THEN [div |-> TRUE, alt |-> 0] ELSE [div |-> FALSE, alt |-> k]
  IN find([k \in cands |->
             production_matches_lexem(g, g.rules[k].production, t, MaxFirstDepth)])

\* a variant of parse_rule_enter that walks the first nullable alternative
\* of the name when no alternative has the lookahead in its FIRST set
parse_rule_enter_nullable(g, input, e) ==
  LET f == Top(e)
      empty == {k \in DOMAIN g.rules :
                  g.rules[k].name = f.rule /\ nullable(g.rules[k].production)}
      enter(it, k) ==
        Call(e, it, [f EXCEPT !.pc = "wait", !.alt = k, !.mark = Len(e.taken)],
             TypeFrame(g.rules[k].production))
      found(it, r) ==
        IF r.div THEN Fail(e, it, "Diverge")
        ELSE IF r.alt /= 0 THEN enter(it, r.alt)
        ELSE IF empty /= {} THEN enter(it, CHOOSE k \in empty : \A j \in empty : k <= j)
        ELSE Fail(e, it, "Err")
      peeked(pk) ==
        IF pk.st = "Panic" THEN Fail(e, pk.it, "Panic")
        ELSE IF ~pk.tok.some THEN Fail(e, pk.it, "Panic")
        ELSE IF \A k \in DOMAIN g.rules : g.rules[k].name /= f.rule
        THEN Fail(e, pk.it, "Panic")
        ELSE found(pk.it, FindRule(g, f.rule, pk.tok.v.t))
  IN peeked(peek(g, input, e.lexems))

\* Grammar::parse_rule up to the call of parse_symbol_type; the frame keeps,
\* as mark, how many tokens the stream had handed out when the alternative
\* was chosen
parse_rule_enter(g, input, e) ==
  LET f == Top(e)
      found(it, r) ==
        IF r.div THEN Fail(e, it, "Diverge")
        ELSE IF r.alt /= 0
        THEN Call(e, it, [f EXCEPT !.pc = "wait", !.alt = r.alt, !.mark = Len(e.taken)],
                  TypeFrame(g.rules[r.alt].production))
        ELSE Fail(e, it, "Err")
      peeked(pk) ==
        IF pk.st = "Panic" THEN Fail(e, pk.it, "Panic")
        ELSE IF ~pk.tok.some THEN Fail(e, pk.it, "Panic")
        ELSE IF \A k \in DOMAIN g.rules : g.rules[k].name /= f.rule
        THEN Fail(e, pk.it, "Panic")
        ELSE found(pk.it, FindRule(g, f.rule, pk.tok.v.t))
  IN peeked(peek(g, input, e.lexems))

\* a variant of parse_rule_return that always returns the Node of the rule
parse_rule_return_node(g, input, e) ==
  Return(e, e.lexems, Node(Top(e).rule, e.ret.v))

\* Grammar::parse_rule after parse_symbol_type has returned the children:
\* the Node of the rule, or its only child when single-child nodes collapse
parse_rule_return(g, input, e) ==
  Return(e, e.lexems, bubble(g, Node(Top(e).rule, e.ret.v)))

\* Grammar::parse_symbol_type at its entry and at the head of the Repeated loop
parse_symbol_type_enter(g, input, e) ==
  LET f == Top(e)
      s == f.s
      wait == [f EXCEPT !.pc = "wait"]
      matches(it, m, inner, otherwise) ==
        IF m.div THEN Fail(e, it, "Diverge")
        ELSE IF m.v THEN Call(e, it, wait, TypeFrame(inner))
        ELSE otherwise
      peeked(pk) ==
        IF pk.st = "Panic" THEN Fail(e, pk.it, "Panic")
        ELSE CASE s.k = "Optional" ->
                    IF ~pk.tok.some THEN Return(e, pk.it, f.parsed)
                    ELSE matches(pk.it,
                                 production_matches_lexem(g, s.o, pk.tok.v.t, MaxFirstDepth),
                                 s.o, Return(e, pk.it, f.parsed))
               [] s.k = "Repeated" ->
                    IF ~pk.tok.some THEN Return(e, pk.it, f.parsed)
                    ELSE matches(pk.it,
                                 production_matches_lexem(g, s.m, pk.tok.v.t, MaxFirstDepth),
                                 s.m, Return(e, pk.it, f.parsed))
               [] s.k = "Switch" ->
                    IF ~pk.tok.some THEN Fail(e, pk.it, "Err")
                    ELSE matches(pk.it,
                                 production_matches_lexem(g, s.a, pk.tok.v.t, MaxFirstDepth),
                                 s.a, Call(e, pk.it, wait, TypeFrame(s.b)))
  IN CASE s.k = "Symbol" -> Call(e, e.lexems, wait, SymbolFrame(s.s))
       [] s.k = "Group" ->
            IF Len(s.g) = 0 THEN Return(e, e.lexems, f.parsed)
            ELSE Call(e, e.lexems, [wait EXCEPT !.k = 1], TypeFrame(s.g[1]))
       [] s.k \in {"Optional", "Repeated", "Switch"} -> peeked(peek(g, input, e.lexems))

\* Grammar::parse_symbol_type after a callee has returned
parse_symbol_type_return(g, input, e) ==
  LET f == Top(e)
      s == f.s
  IN CASE s.k = "Symbol" ->
            Return(e, e.lexems, IF e.ret.v.some THEN Append(f.parsed, e.ret.v.v) ELSE f.parsed)
       [] s.k = "Group" ->
            IF f.k = Len(s.g) THEN Return(e, e.lexems, f.parsed \o e.ret.v)
            ELSE Call(e, e.lexems, [f EXCEPT !.parsed = f.parsed \o e.ret.v, !.k = f.k + 1],
                      TypeFrame(s.g[f.k + 1]))
       [] s.k \in {"Optional", "Switch"} -> Return(e, e.lexems, f.parsed \o e.ret.v)
       [] s.k = "Repeated" ->
            [e EXCEPT !.ret = None,
                      !.stack = Append(Pop(e.stack),
                                       [f EXCEPT !.pc = "enter", !.parsed = f.parsed \o e.ret.v])]

\* a variant of parse_symbol_enter that makes a Leaf of every token it takes
parse_symbol_enter_every_leaf(g, input, e) ==
  LET f == Top(e)
      s == f.s
      shifted(a) ==
        Return([e EXCEPT !.taken = Append(e.taken, a.tok.v)], a.it,
               Some(Leaf(a.tok.v.t, a.tok.v.raw)))
      peeked(pk) ==
        IF pk.st = "Panic" THEN Fail(e, pk.it, "Panic")
        ELSE IF pk.tok.some /\ pk.tok.v.t = s.t
        THEN shifted(next(g, input, pk.it))
        ELSE Fail(e, pk.it, "Err")
  IN IF s.k = "Lexem"
     THEN peeked(peek(g, input, e.lexems))
     ELSE Call(e, e.lexems, [f EXCEPT !.pc = "wait"], RuleFrame(s.t))

\* Grammar::parse_symbol at its entry
parse_symbol_enter(g, input, e) ==
  LET f == Top(e)
      s == f.s
      shifted(a) ==
        IF s.include_raw
        THEN Return([e EXCEPT !.taken = Append(e.taken, a.tok.v)], a.it,
                    Some(Leaf(a.tok.v.t, a.tok.v.raw)))
        ELSE Return([e EXCEPT !.taken = Append(e.taken, a.tok.v)], a.it, None)
      peeked(pk) ==
        IF pk.st = "Panic" THEN Fail(e, pk.it, "Panic")
        ELSE IF pk.tok.some /\ pk.tok.v.t = s.t
        THEN shifted(next(g, input, pk.it))
        ELSE Fail(e, pk.it, "Err")
  IN IF s.k = "Lexem"
     THEN peeked(peek(g, input, e.lexems))
     ELSE Call(e, e.lexems, [f EXCEPT !.pc = "wait"], RuleFrame(s.t))

\* Grammar::parse_symbol after parse_rule has returned
parse_symbol_return(g, input, e) == Return(e, e.lexems, Some(e.ret.v))

\* a variant of parse_enter that goes on with the stream it finds
parse_enter_shared(e) ==
  [e EXCEPT !.stack = <<ParseFrame, RuleFrame(s_START)>>,
            !.ret = None, !.status = "running", !.result = None, !.taken = <<>>]

\* Grammar::parse up to the call of parse_rule
parse_enter(e) ==
  [e EXCEPT !.lexems = Lexem_iter, !.stack = <<ParseFrame, RuleFrame(s_START)>>,
            !.ret = None, !.status = "running", !.result = None, !.taken = <<>>]

\* a variant of parse_return that does not look at the rest of the stream
parse_return_unchecked(g, input, e) ==
  [e EXCEPT !.status = "Ok", !.result = e.ret, !.ret = None, !.stack = <<>>]

\* Grammar::parse after parse_rule has returned
parse_return(g, input, e) ==
  LET rest(n) ==
        IF n.st = "Panic" THEN Fail(e, n.it, "Panic")
        ELSE IF n.tok.some
        THEN Fail([e EXCEPT !.taken = Append(e.taken, n.tok.v)], n.it, "Err")
        ELSE [e EXCEPT !.lexems = n.it, !.status = "Ok", !.result = e.ret,
                       !.ret = None, !.stack = <<>>]
  IN rest(next(g, input, e.lexems))

(***************************************************************************)
(* Bootstrap grammar and lowering (src/src/grammar.rs)                     *)
(***************************************************************************)

s_DOC == <<"D","O","C">>

s_EXP == <<"E","X","P">>

s_ATOM == <<"A","T","O","M">>

s_PROD == <<"P","R","O","D">>

s_PROD_TERM == <<"P","R","O","D","_","T","E","R","M">>

s_PROD_GROUP == <<"P","R","O","D","_","G","R","O","U","P">>

s_NUMBER == <<"N","U","M","B","E","R">>

s_ALPHA == <<"A","L","P","H","A">>

s_LITERAL == <<"L","I","T","E","R","A","L">>

\* the L! macro
L(t) == Lexem(t, FALSE)

Li(t, i) == Lexem(t, i)

get_parsing_grammar ==
  [options |-> [ignore_newline |-> TRUE, ignore_whitespace |-> TRUE,
                bubble_intermediate |-> FALSE],
   rules |-> <<
     Rule(s_START, Symbol(AST(s_DOC))),
     Rule(s_DOC, Group(<<
       Switch(Symbol(AST(s_EXP)), Symbol(AST(s_ATOM))),
       Repeated(Switch(Symbol(AST(s_EXP)), Symbol(AST(s_ATOM)))) >>)),
     Rule(s_ATOM, Group(<<
       Symbol(L(<<">">>)),
       Symbol(Li(s_ALPHA, TRUE)),
       Symbol(L(<<"-", ">">>)),
       Symbol(L(<<"'">>)),
       Switch(Symbol(Li(s_ALPHA, TRUE)), Symbol(Li(s_LITERAL, TRUE))),
       Symbol(L(<<"'">>)) >>)),
     Rule(s_EXP, Group(<<
       Symbol(Li(s_ALPHA, TRUE)),
       Symbol(L(<<"-", ">">>)),
       Symbol(AST(s_PROD_GROUP)) >>)),
     Rule(s_PROD, Group(<<
       Symbol(AST(s_PROD_TERM)),
       Repeated(Switch(Symbol(AST(s_PROD_TERM)), Symbol(AST(s_PROD_GROUP)))) >>)),
     Rule(s_PROD, Group(<<
       Symbol(AST(s_PROD_GROUP)),
       Repeated(Group(<<Symbol(Li(<<"|">>, TRUE)), Symbol(AST(s_PROD_GROUP))>>)) >>)),
     Rule(s_PROD_TERM, Symbol(Li(s_ALPHA, TRUE))),
     Rule(s_PROD_GROUP, Group(<<
       Symbol(L(<<"(">>)),
       Symbol(AST(s_PROD)),
       Symbol(L(<<")">>)),
       Optional(Switch(Symbol(Li(<<"*">>, TRUE)), Symbol(Li(<<"?">>, TRUE)))) >>)) >>,
   atoms |-> <<
     Simple(<<"|">>),
     Simple(<<"(">>),
     Simple(<<")">>),
     Simple(<<"*">>),
     Simple(<<"?">>),
     Simple(<<"-", ">">>),
     Simple(<<">">>),
     Simple(<<"'">>),
     Matched(s_NUMBER, RegexNew(<<"\\", "d", "+">>)),
     Matched(s_ALPHA, RegexNew(<<"\\">> \o pAlphabetic \o <<"+">>)),
     Matched(s_LITERAL, RegexNew(<<"[", "^", "'", "]", "+">>)) >>]

LowerResult(st, v) == [st |-> st, v |-> v]

LowerPanic == LowerResult("Panic", <<>>)

\* parse_production: the production of a PROD, PROD_TERM or PROD_GROUP
\* subtree or of an ALPHA leaf; a panic for anything else
RECURSIVE parse_production(_)
RECURSIVE parse_production_prod(_, _, _)
parse_production(ast) ==
  LET c == ast.children
      prod(first) ==
        IF first.st /= "Ok" THEN LowerPanic
        ELSE parse_production_prod(c, 2, <<first.v>>)
      group(first) ==
        IF first.st /= "Ok" THEN LowerPanic
        ELSE IF Len(c) >= 2
        THEN IF c[2].t = <<"*">> THEN LowerResult("Ok", Repeated(first.v))
             ELSE IF c[2].t = <<"?">> THEN LowerResult("Ok", Optional(first.v))
             ELSE first
        ELSE first
  IN IF ast.k = "Node" THEN
       IF ast.t = s_PROD THEN
         IF Len(c) = 0 THEN LowerPanic ELSE prod(parse_production(c[1]))
       ELSE IF ast.t = s_PROD_TERM THEN
         IF Len(c) = 0 THEN LowerPanic ELSE parse_production(c[1])
       ELSE IF ast.t = s_PROD_GROUP THEN
         IF Len(c) = 0 THEN LowerPanic ELSE group(parse_production(c[1]))
       ELSE LowerPanic
     ELSE IF ast.t = s_ALPHA
          THEN IF to_ascii_uppercase(ast.raw) = ast.raw
               THEN LowerResult("Ok", Symbol(AST(ast.raw)))
               ELSE LowerResult("Ok", Symbol(Lexem(ast.raw, TRUE)))
          ELSE LowerPanic

\* the while loop of the PROD arm, from child k on
parse_production_prod(c, k, children) ==
  LET switch(rhs) ==
        IF rhs.st /= "Ok" THEN LowerPanic
        ELSE parse_production_prod(c, k + 2, <<Switch(children[1], rhs.v)>>)
      push(p) ==
        IF p.st /= "Ok" THEN LowerPanic
        ELSE parse_production_prod(c, k + 1, Append(children, p.v))
  IN IF k > Len(c) THEN LowerResult("Ok", Group(children))
     ELSE IF c[k].t = <<"|">>
     THEN IF Len(children) /= 1 \/ k + 1 > Len(c) THEN LowerPanic
          ELSE switch(parse_production(c[k + 1]))
     ELSE push(parse_production(c[k]))

\* one iteration of the loop of parse_ast_grammar: the Rule or the Atom of
\* one declaration
parse_ast_grammar_decl(decl) ==
  LET t == decl.t
      c == decl.children
      rule(production) ==
        IF production.st /= "Ok" THEN LowerPanic
        ELSE LowerResult("Ok", [rule |-> TRUE, v |-> Rule(c[1].raw, production.v)])
      atom(m) ==
        IF ~m.ok THEN LowerPanic
        ELSE LowerResult("Ok", [rule |-> FALSE, v |-> Matched(c[1].raw, m)])
  IN IF decl.k /= "Node" THEN LowerPanic
     ELSE IF t = s_EXP THEN
       IF Len(c) < 2 \/ c[1].k /= "Leaf" THEN LowerPanic
       ELSE rule(parse_production(c[2]))
     ELSE IF t = s_ATOM THEN
       IF Len(c) < 2 \/ c[1].k /= "Leaf" \/ c[2].k /= "Leaf" THEN LowerPanic
       ELSE atom(RegexNew(c[2].raw))
     ELSE LowerPanic

\* a variant of parse_ast_grammar that puts each rule and each atom in front
\* of those of the earlier declarations
parse_ast_grammar_front(ast) ==
  LET grammar(decls) ==
        LET rules == SelectSeq(decls, LAMBDA d : d.v.rule)
            atoms == SelectSeq(decls, LAMBDA d : ~d.v.rule)
        IN IF \E i \in DOMAIN decls : decls[i].st /= "Ok" THEN LowerPanic
           ELSE LowerResult("Ok", Grammar([i \in DOMAIN rules |-> rules[Len(rules) + 1 - i].v.v],
                                          [i \in DOMAIN atoms |-> atoms[Len(atoms) + 1 - i].v.v],
                                          ParseOptions_default))
      declarations(doc) ==
        IF Len(doc) = 0 THEN LowerPanic
        ELSE grammar([i \in DOMAIN doc |-> parse_ast_grammar_decl(doc[i])])
  IN IF ast.t /= s_START \/ ast.k /= "Node" THEN LowerPanic
     ELSE IF Len(ast.children) /= 1 THEN LowerPanic
     ELSE IF ast.children[1].t /= s_DOC \/ ast.children[1].k /= "Node" THEN LowerPanic
     ELSE declarations(ast.children[1].children)

\* parse_ast_grammar: rules and atoms are pushed in the order of the
\* declarations
parse_ast_grammar(ast) ==
  LET grammar(decls) ==
        LET rules == SelectSeq(decls, LAMBDA d : d.v.rule)
            atoms == SelectSeq(decls, LAMBDA d : ~d.v.rule)
        IN IF \E i \in DOMAIN decls : decls[i].st /= "Ok" THEN LowerPanic
           ELSE LowerResult("Ok", Grammar([i \in DOMAIN rules |-> rules[i].v.v],
                                          [i \in DOMAIN atoms |-> atoms[i].v.v],
                                          ParseOptions_default))
      declarations(doc) ==
        IF Len(doc) = 0 THEN LowerPanic
        ELSE grammar([i \in DOMAIN doc |-> parse_ast_grammar_decl(doc[i])])
  IN IF ast.t /= s_START \/ ast.k /= "Node" THEN LowerPanic
     ELSE IF Len(ast.children) /= 1 THEN LowerPanic
     ELSE IF ast.children[1].t /= s_DOC \/ ast.children[1].k /= "Node" THEN LowerPanic
     ELSE declarations(ast.children[1].children)

\* tests::RAW_GRAMMAR_SUM
RAW_GRAMMAR_SUM ==
  <<"\n"," "," "," "," "," "," "," "," "," "," "," "," ","S","T","A","R",
    "T"," ","-",">"," ","("," ","S","U","M"," ",")","\n"," "," "," "," ",
    " "," "," "," "," "," "," "," ","S","U","M"," ","-",">"," ","("," ","P",
    "R","O","D","U","C","T"," ","("," ","O","P","A"," ","P","R","O","D","U",
    "C","T"," ",")","*"," ",")","\n"," "," "," "," "," "," "," "," "," ",
    " "," "," ","P","R","O","D","U","C","T"," ","-",">"," ","("," ","N","U",
    "M","B","E","R"," ","("," ","O","P","B"," ","N","U","M","B","E","R"," ",
    ")","*"," ",")","\n"," "," "," "," "," "," "," "," "," "," "," "," ",
    "N","U","M","B","E","R"," ","-",">"," ","("," ","n","u","m"," ",")",
    "\n"," "," "," "," "," "," "," "," "," "," "," "," ","N","U","M","B",
    "E","R"," ","-",">"," ","("," ","m","i","n","u","s"," ","n","u","m"," ",
    ")","\n"," "," "," "," "," "," "," "," "," "," "," "," ","O","P","A",
    " ","-",">"," ","("," ","("," ","p","l","u","s","s"," ",")"," ","|"," ",
    "("," ","m","i","n","u","s"," ",")"," ",")","\n"," "," "," "," "," ",
    " "," "," "," "," "," "," ","O","P","B"," ","-",">"," ","("," ","("," ",
    "m","u","l","t","i","p","l","y"," ",")"," ","|"," ","("," ","d","i","v",
    "i","d","e"," ",")"," ",")","\n","\n"," "," "," "," "," "," "," "," ",
    " "," "," "," ",">","p","l","u","s","s"," ","-",">"," ","'","\\","+",
    "'","\n"," "," "," "," "," "," "," "," "," "," "," "," ",">","m","i",
    "n","u","s"," ","-",">"," ","'","-","'","\n"," "," "," "," "," "," ",
    " "," "," "," "," "," ",">","m","u","l","t","i","p","l","y"," ","-",">",
    " ","'","x","'","\n"," "," "," "," "," "," "," "," "," "," "," "," ",
    ">","d","i","v","i","d","e"," ","-",">"," ","'","/","'","\n"," "," ",
    " "," "," "," "," "," "," "," "," "," ",">","n","u","m"," ","-",">"," ",
    "'","\\","d","+","'","\n"," "," "," "," "," "," "," "," "," "," "," ",
    " ">>

\* tests::RAW_GRAMMAR_FILES
RAW_GRAMMAR_FILES ==
  <<"\n"," "," "," "," "," "," "," "," "," "," "," "," ","S","T","A","R",
    "T"," ","-",">"," ","("," ","F","I","L","E"," ",")","*","\n"," "," ",
    " "," "," "," "," "," "," "," "," "," ","F","I","L","E"," ","-",">"," ",
    "(","a","l","p","h","a"," ","(","d","o","t"," ","a","l","p","h","a",")",
    "?",")","\n","\n"," "," "," "," "," "," "," "," "," "," "," "," ",">",
    "a","l","p","h","a"," ","-",">"," ","'","\\","w","+","'","\n"," "," ",
    " "," "," "," "," "," "," "," "," "," ",">","d","o","t"," ","-",">"," ",
    "'","\\",".","'","\n"," "," "," "," "," "," "," "," "," "," "," "," ">>

(***************************************************************************)
(* The grammars of the tests of src/src/parsing.rs, and the grammars of    *)
(* the examples of the specification                                       *)
(***************************************************************************)

s_PAR == <<"P", "A", "R">>

s_FLOAT == <<"F", "L", "O", "A", "T">>

s_PARS == <<"P", "A", "R", "S">>

s_LIST == <<"L", "I", "S", "T">>

s_OBJ == <<"O", "B", "J">>

s_COMP == <<"C", "O", "M", "P">>

s_ITEM == <<"I", "T", "E", "M">>

s_KV == <<"K", "V">>

s_STRING == <<"S", "T", "R", "I", "N", "G">>

s_GTS == <<"G", "T", "S">>

Lx(c) == Symbol(Lexem(<<c>>, FALSE))

Tk(t) == Symbol(Lexem(t, FALSE))

Ref(r) == Symbol(AST(r))

r_digits == RegexNew(<<"\\", "d", "+">>)

r_alphabetic == RegexNew(<<"\\">> \o pAlphabetic \o <<"+">>)

\* tests::simple_lexem_iter
g_simple_lexem_iter ==
  Grammar(<<>>, <<Simple(<<"(">>), Simple(<<")">>)>>, ParseOptions(TRUE, FALSE))

\* tests::combined_lexem_iter
g_combined_lexem_iter ==
  Grammar(<<>>, <<Simple(<<"(">>), Simple(<<")">>), Matched(s_NUMBER, r_digits)>>,
          ParseOptions(TRUE, TRUE))

\* tests::parse_simple
g_parse_simple ==
  Grammar(<<Rule(s_START, Ref(s_PAR)),
            Rule(s_PAR, Group(<<Lx("("), Tk(s_NUMBER), Lx(")")>>))>>,
          <<Simple(<<"(">>), Simple(<<")">>), Matched(s_NUMBER, r_digits)>>,
          ParseOptions_default)

\* tests::parse_optional
g_parse_optional ==
  Grammar(<<Rule(s_START, Ref(s_FLOAT)),
            Rule(s_FLOAT, Group(<<Tk(s_NUMBER),
                                  Optional(Group(<<Lx("."), Tk(s_NUMBER)>>))>>))>>,
          <<Simple(<<".">>), Matched(s_NUMBER, r_digits)>>,
          ParseOptions_default)

\* tests::parse_multiple
g_parse_multiple ==
  Grammar(<<Rule(s_START, Ref(s_PARS)),
            Rule(s_PARS, Repeated(Group(<<Lx("("), Lx(")")>>)))>>,
          <<Simple(<<"(">>), Simple(<<")">>)>>,
          ParseOptions_default)

\* tests::parse_multiple_matching_rules
g_parse_multiple_matching_rules ==
  Grammar(<<Rule(s_START, Ref(s_LIST)),
            Rule(s_START, Ref(s_OBJ)),
            Rule(s_LIST, Group(<<Lx("["), Lx("]")>>)),
            Rule(s_OBJ, Group(<<Lx("{"), Lx("}")>>))>>,
          <<Simple(<<"[">>), Simple(<<"]">>), Simple(<<"{">>), Simple(<<"}">>),
            Matched(s_NUMBER, r_digits)>>,
          ParseOptions_default)

\* tests::parse_switch
g_parse_switch ==
  Grammar(<<Rule(s_START, Ref(s_COMP)),
            Rule(s_COMP, Group(<<Tk(s_NUMBER), Switch(Lx("<"), Lx(">")), Tk(s_NUMBER)>>))>>,
          <<Simple(<<"<">>), Simple(<<">">>), Matched(s_NUMBER, r_digits)>>,
          ParseOptions_default)

\* tests::parse_mini_json
g_parse_mini_json ==
  Grammar(<<Rule(s_START, Ref(s_ITEM)),
            Rule(s_ITEM, Ref(s_OBJ)),
            Rule(s_ITEM, Ref(s_LIST)),
            Rule(s_ITEM, Tk(s_NUMBER)),
            Rule(s_OBJ, Group(<<Lx("{"),
                                Optional(Group(<<Ref(s_KV),
                                                 Repeated(Group(<<Lx(","), Ref(s_KV)>>))>>)),
                                Lx("}")>>)),
            Rule(s_KV, Group(<<Lx("\""), Tk(s_STRING), Lx("\""), Lx(":"), Ref(s_ITEM)>>)),
            Rule(s_LIST, Group(<<Lx("["),
                                 Optional(Group(<<Ref(s_ITEM),
                                                  Repeated(Group(<<Lx(","), Ref(s_ITEM)>>))>>)),
                                 Lx("]")>>))>>,
          <<Simple(<<"{">>), Simple(<<"}">>), Simple(<<"[">>), Simple(<<"]">>),
            Simple(<<",">>), Simple(<<":">>), Simple(<<"\"">>),
            Matched(s_STRING, r_alphabetic), Matched(s_NUMBER, r_digits)>>,
          ParseOptions_default)

\* a START that matches the single token a; spaces are skipped
g_single_token ==
  Grammar(<<Rule(s_START, Lx("a"))>>, <<Simple(<<"a">>)>>, ParseOptions(TRUE, FALSE))

\* a START that is a Repeated group over the tokens ( and )
g_repeated_start ==
  Grammar(<<Rule(s_START, Repeated(Group(<<Lx("("), Lx(")")>>)))>>,
          <<Simple(<<"(">>), Simple(<<")">>)>>,
          ParseOptions_default)

\* atoms in priority order: >= before >, > before the longer pattern >+
g_atom_priority ==
  Grammar(<<>>,
          <<Simple(<<">", "=">>), Simple(<<">">>),
            Matched(s_GTS, RegexNew(<<">", "+">>)), Simple(<<"=">>)>>,
          ParseOptions_default)

\* tokens of one character, one of them outside ASCII; spaces are skipped,
\* newlines are not
g_non_ascii ==
  Grammar(<<Rule(s_START, Repeated(Switch(Tk(<<EAcute>>), Switch(Lx("a"), Lx("b")))))>>,
          <<Simple(<<EAcute>>), Simple(<<"a">>), Simple(<<"b">>)>>,
          ParseOptions(TRUE, FALSE))

\* a Switch behind a token: the lookahead of the Switch can be a token that
\* leads neither branch
g_switch_after ==
  Grammar(<<Rule(s_START, Group(<<Lx("c"), Switch(Lx("a"), Lx("b"))>>))>>,
          <<Simple(<<"a">>), Simple(<<"b">>), Simple(<<"c">>)>>,
          ParseOptions_default)

\* two alternatives of START that both begin with the token a
g_overlapping_alternatives ==
  Grammar(<<Rule(s_START, Group(<<Lx("a"), Lx("b")>>)),
            Rule(s_START, Group(<<Lx("a"), Lx("c")>>))>>,
          <<Simple(<<"a">>), Simple(<<"b">>), Simple(<<"c">>)>>,
          ParseOptions_default)

\* the production of START begins with a reference to ITEM, a name for which
\* no rule is declared
g_undefined_reference ==
  Grammar(<<Rule(s_START, Group(<<Ref(s_ITEM), Lx("a")>>))>>,
          <<Simple(<<"a">>)>>,
          ParseOptions_default)

\* a Group that begins with an Optional and a Group of an Optional
g_nullable_prefix ==
  Grammar(<<Rule(s_START, Group(<<Optional(Lx("a")), Group(<<Optional(Lx("b"))>>), Lx("c")>>))>>,
          <<Simple(<<"a">>), Simple(<<"b">>), Simple(<<"c">>)>>,
          ParseOptions_default)

\* an atom that matches the empty string, repeated
g_empty_match ==
  Grammar(<<Rule(s_START, Repeated(Lx("x")))>>,
          <<Matched(<<"x">>, RegexNew(<<"a", "*">>))>>,
          ParseOptions_default)

\* a START that begins with a reference to itself
g_left_recursive ==
  Grammar(<<Rule(s_START, Group(<<Ref(s_START), Lx("a")>>)),
            Rule(s_START, Lx("a"))>>,
          <<Simple(<<"a">>)>>,
          ParseOptions_default)

HandBuilt ==
  [simple_lexem_iter |-> g_simple_lexem_iter,
   combined_lexem_iter |-> g_combined_lexem_iter,
   parse_simple |-> g_parse_simple,
   parse_optional |-> g_parse_optional,
   parse_multiple |-> g_parse_multiple,
   parse_multiple_matching_rules |-> g_parse_multiple_matching_rules,
   parse_switch |-> g_parse_switch,
   parse_mini_json |-> g_parse_mini_json,
   single_token |-> g_single_token,
   repeated_start |-> g_repeated_start,
   atom_priority |-> g_atom_priority,
   non_ascii |-> g_non_ascii,
   switch_after |-> g_switch_after,
   overlapping_alternatives |-> g_overlapping_alternatives,
   undefined_reference |-> g_undefined_reference,
   nullable_prefix |-> g_nullable_prefix,
   left_recursive |-> g_left_recursive,
   empty_match |-> g_empty_match,
   get_parsing_grammar |-> get_parsing_grammar]

(***************************************************************************)
(* Inputs                                                                  *)
(***************************************************************************)

\* bound of the length of the enumerated inputs
MaxLen == 3

Strs(A, n) == UNION {[1..k -> A] : k \in 0..n}

\* the text of the atom declaration >n->'body'
AtomDeclaration(body) == <<">", "n", "-", ">", "'">> \o body \o <<"'">>

\* bodies of atom declarations: the pattern of tests::RAW_GRAMMAR_SUM, a
\* letter, a digit, a letter followed by a quantifier, a letter behind a
\* space, and two characters that are punctuation of the notation
AtomBodies ==
  {<<"\\", "d", "+">>, <<"a">>, <<"1">>, <<"a", "+">>, <<" ", "a">>, <<">">>, <<"(">>}

AtomDeclarations == {AtomDeclaration(body) : body \in AtomBodies}

\* the inputs of the tests and of the examples, and every string up to MaxLen
\* over a few characters of the grammar
Inputs ==
  [simple_lexem_iter |->
     {<<"(", "(", ")", " ", "(", ")", ")">>}
     \cup Strs({"(", ")", " "}, MaxLen),
   combined_lexem_iter |->
     {<<"(", "\n", "1", "2", "3", "4", " ", ")">>}
     \cup Strs({"(", "1", "\n", " "}, MaxLen),
   parse_simple |->
     {<<"(", "1", "4", "2", "4", ")">>,
      <<"(", "(", ")">>,
      <<"(", ")">>,
      <<"1", "4", "2", "4", ")">>,
      <<"(", "1", "4", "2", "4">>}
     \cup Strs({"(", ")", "1"}, MaxLen),
   parse_optional |->
     {<<"1", "2", ".", "3", "4">>,
      <<"1", "2">>,
      <<"1", "2", ".">>}
     \cup Strs({"1", "."}, MaxLen),
   parse_multiple |->
     {<<"(", ")">>,
      <<"(", ")", "(", ")">>,
      <<"(", ")", "(", ")", "(", ")">>,
      <<"(", ")", "(">>,
      <<"(", ")", "(", ")", "(">>}
     \cup Strs({"(", ")"}, MaxLen),
   parse_multiple_matching_rules |->
     {<<"[", "]">>,
      <<"{", "}">>,
      <<"[", "}">>}
     \cup Strs({"[", "]", "{", "}"}, MaxLen),
   parse_switch |->
     {<<"1", "2", "<", "9">>,
      <<"1", "2", ">", "9">>,
      <<"1", "2">>}
     \cup Strs({"1", "<", ">"}, MaxLen),
   parse_mini_json |->
     {<<"{", "}">>,
      <<"[", "]">>,
      <<"{", "\"", "f", "i", "e", "l", "d", "\"", ":", "1", "2", "}">>,
      <<"{", "\"", "f", "i", "e", "l", "d", "A", "\"", ":", "[", "1", ",", "2", ",", "3", "]", ",", "\"", "f", "i", "e", "l", "d", "B", "\"", ":", "{", "}", "}">>,
      <<"[", "{", "}", ",", "1", "2", ",", "[", "[", "]", "]", "]">>,
      <<"[">>,
      <<"[", "{", "{", "}", "}", "]">>,
      <<"{", "\"", "f", "i", "e", "l", "d", "\"", "}">>}
     \cup Strs({"[", "]", "1", ","}, MaxLen),
   single_token |->
     {<<"a", " ", "a">>}
     \cup Strs({"a", " ", "#"}, MaxLen),
   repeated_start |->
     {<<>>,
      <<"(", ")">>,
      <<"(", ")", "(", ")">>,
      <<"(", ")", "(", ")", "(", ")">>,
      <<"(">>,
      <<"(", ")", "(">>,
      <<"(", ")", "(", ")", "(">>}
     \cup Strs({"(", ")"}, MaxLen),
   atom_priority |->
     {<<">", "=">>}
     \cup Strs({">", "="}, MaxLen),
   non_ascii |->
     {<<EAcute, "a", " ", "b">>,
      <<"b", "a", " ", "b">>,
      <<EAcute, "\n", " ", "b">>}
     \cup Strs({EAcute, "a", " "}, MaxLen),
   switch_after |->
     Strs({"a", "b", "c"}, MaxLen),
   overlapping_alternatives |->
     Strs({"a", "b", "c"}, MaxLen),
   undefined_reference |->
     Strs({"a"}, MaxLen),
   nullable_prefix |->
     Strs({"a", "b", "c"}, MaxLen),
   left_recursive |->
     Strs({"a"}, MaxLen),
   empty_match |->
     {<<>>, <<"a">>, <<"b">>, <<"a", "b">>},
   get_parsing_grammar |-> {RAW_GRAMMAR_SUM, RAW_GRAMMAR_FILES} \cup AtomDeclarations]

\* bound of the length of the identifiers of the hand-built trees
MaxIdent == 2

\* the tree of the text "S -> ( id )", built by the caller from the public
\* constructors of AST
HandTree(id) ==
  Node(s_START,
       <<Node(s_DOC,
              <<Node(s_EXP,
                     <<Leaf(s_ALPHA, <<"S">>),
                       Node(s_PROD_GROUP,
                            <<Node(s_PROD,
                                   <<Node(s_PROD_TERM, <<Leaf(s_ALPHA, id)>>)>>)>>)>>)>>)>>)

\* one tree for every identifier up to MaxIdent letters over an uppercase
\* letter, a lowercase letter and a lowercase letter outside ASCII
HandTrees == {HandTree(id) : id \in Strs({"A", "b", EAcute}, MaxIdent) \ {<<>>}}

\* the inputs tried on a grammar lowered from a specification text
LoweredInputs(text) ==
  IF text = RAW_GRAMMAR_SUM
  THEN {<<"1">>, <<"1", "+", "2", "x", "3">>, <<"1", "x", "2", "+", "3", "x", "4">>,
        <<"1", "+">>}
       \cup Strs({"1", "+", "-"}, MaxLen)
  ELSE IF text = RAW_GRAMMAR_FILES
  THEN {<<"f", "i", "l", "e", "A">>, <<"f", "i", "l", "e", "A", ".", "m", "d">>,
        <<"f", "i", "l", "e", "A", " ", "f", "i", "l", "e", "B">>}
       \cup Strs({"a", ".", " "}, MaxLen)
  ELSE Strs({"a", "1"}, MaxLen)

(***************************************************************************)
(* The state machine.  A caller holds a Grammar g (hand-built, or lowered  *)
(* from the specification text named by text) and an input.  While status  *)
(* is "idle" it drives a token stream of its own with peek and next, as    *)
(* the tests of the stream do; parse creates a fresh stream and runs the   *)
(* engine step by step; a successful parse by the bootstrap grammar can be *)
(* lowered to a new grammar.                                               *)
(***************************************************************************)

VARIABLES g, gid, text, input, lexems, stack, ret, status, result, taken, last,
          prev

vars == <<g, gid, text, input, lexems, stack, ret, status, result, taken, last, prev>>

Engine == [lexems |-> lexems, stack |-> stack, ret |-> ret, status |-> status,
           result |-> result, taken |-> taken]

Last(op, frame, tok) == [op |-> op, frame |-> frame, tok |-> tok]

\* the engine state becomes e
Becomes(e) ==
  /\ lexems' = e.lexems
  /\ stack' = e.stack
  /\ ret' = e.ret
  /\ status' = e.status
  /\ result' = e.result
  /\ taken' = e.taken

Init ==
  /\ gid \in DOMAIN HandBuilt
  /\ g = HandBuilt[gid]
  /\ text = <<>>
  /\ input \in Inputs[gid]
  /\ lexems = Lexem_iter
  /\ stack = <<>>
  /\ ret = None
  /\ status = "idle"
  /\ result = None
  /\ taken = <<>>
  /\ last = Last("iter", ParseFrame, None)
  /\ prev = None

\* the caller peeks at its stream
CallPeek ==
  /\ status = "idle"
  /\ \E r \in {peek(g, input, lexems)} :
       /\ lexems' = r.it
       /\ status' = IF r.st = "Panic" THEN "Panic" ELSE "idle"
       /\ last' = Last("peek", ParseFrame, r.tok)
  /\ UNCHANGED <<g, gid, text, input, stack, ret, result, taken, prev>>

\* the caller advances its stream
CallNext ==
  /\ status = "idle"
  /\ Len(taken) < MaxTaken
  /\ \E r \in {next(g, input, lexems)} :
       /\ lexems' = r.it
       /\ status' = IF r.st = "Panic" THEN "Panic" ELSE "idle"
       /\ taken' = IF r.tok.some THEN Append(taken, r.tok.v) ELSE taken
       /\ last' = Last("next", ParseFrame, r.tok)
  /\ UNCHANGED <<g, gid, text, input, stack, ret, result, prev>>

\* the caller calls Grammar::parse, again if an earlier call has returned;
\* prev keeps what the earlier call returned
CallParse ==
  /\ status \in {"idle", "Ok", "Err"}
  /\ Becomes(parse_enter(Engine))
  /\ last' = Last("parse", ParseFrame, None)
  /\ prev' = IF status \in {"Ok", "Err"}
             THEN Some([status |-> status, result |-> result])
             ELSE prev
  /\ UNCHANGED <<g, gid, text, input>>

Running(fn, pc) ==
  /\ status = "running"
  /\ stack /= <<>>
  /\ Top(Engine).fn = fn
  /\ Top(Engine).pc = pc
  /\ ret.some <=> pc = "wait"

Step(fn, e) ==
  /\ Becomes(e)
  /\ last' = Last(fn, Top(Engine), None)
  /\ UNCHANGED <<g, gid, text, input, prev>>

ParseRuleEnter ==
  /\ Running("parse_rule", "enter")
  /\ Step("parse_rule", parse_rule_enter(g, input, Engine))

ParseRuleReturn ==
  /\ Running("parse_rule", "wait")
  /\ Step("parse_rule", parse_rule_return(g, input, Engine))

ParseSymbolTypeEnter ==
  /\ Running("parse_symbol_type", "enter")
  /\ Step("parse_symbol_type", parse_symbol_type_enter(g, input, Engine))

ParseSymbolTypeReturn ==
  /\ Running("parse_symbol_type", "wait")
  /\ Step("parse_symbol_type", parse_symbol_type_return(g, input, Engine))

ParseSymbolEnter ==
  /\ Running("parse_symbol", "enter")
  /\ Len(taken) < MaxTaken
  /\ Step("parse_symbol", parse_symbol_enter(g, input, Engine))

ParseSymbolReturn ==
  /\ Running("parse_symbol", "wait")
  /\ Step("parse_symbol", parse_symbol_return(g, input, Engine))

ParseReturn ==
  /\ Running("parse", "wait")
  /\ Step("parse", parse_return(g, input, Engine))

\* the caller lowers the tree of a specification text, parsed by the
\* bootstrap grammar, and goes on with the lowered grammar
BuildGrammar ==
  /\ status = "Ok"
  /\ gid = "get_parsing_grammar"
  /\ \E r \in {parse_ast_grammar(result.v)} :
       IF r.st = "Ok"
       THEN /\ g' = r.v
            /\ gid' = "parse_ast_grammar"
            /\ text' = input
            /\ input' \in LoweredInputs(input)
            /\ status' = "idle"
       ELSE /\ status' = "Panic"
            /\ UNCHANGED <<g, gid, text, input>>
  /\ lexems' = Lexem_iter
  /\ stack' = <<>>
  /\ ret' = None
  /\ result' = None
  /\ taken' = <<>>
  /\ last' = Last("parse_ast_grammar", ParseFrame, None)
  /\ prev' = None

\* the caller builds a tree by hand and lowers it; result keeps the tree
BuildGrammarFromTree ==
  /\ status = "idle"
  /\ gid = "get_parsing_grammar"
  /\ last.op = "iter"
  /\ \E ast \in HandTrees :
       /\ result' = Some(ast)
       /\ \E r \in {parse_ast_grammar(ast)} :
            IF r.st = "Ok"
            THEN /\ g' = r.v
                 /\ gid' = "parse_ast_grammar"
                 /\ status' = "idle"
            ELSE /\ status' = "Panic"
                 /\ UNCHANGED <<g, gid>>
  /\ text' = <<>>
  /\ input' = <<>>
  /\ lexems' = Lexem_iter
  /\ stack' = <<>>
  /\ ret' = None
  /\ taken' = <<>>
  /\ last' = Last("parse_ast_grammar", ParseFrame, None)
  /\ prev' = None

\* the options a caller gives to a lowered grammar: those of
\* tests::parse_with_parsed_grammar, and collapsing alone
OptionsTried ==
  {[ignore_whitespace |-> TRUE, ignore_newline |-> TRUE, bubble_intermediate |-> TRUE],
   [ignore_whitespace |-> FALSE, ignore_newline |-> FALSE, bubble_intermediate |-> TRUE]}

\* the caller replaces the options of the grammar it has just lowered
WithOptions ==
  /\ status = "idle"
  /\ gid = "parse_ast_grammar"
  /\ last.op = "parse_ast_grammar"
  /\ \E options \in OptionsTried : g' = with_options(g, options)
  /\ gid' = "with_options"
  /\ last' = Last("with_options", ParseFrame, None)
  /\ UNCHANGED <<text, input, lexems, stack, ret, status, result, taken, prev>>

Next ==
  \/ CallPeek
  \/ CallNext
  \/ CallParse
  \/ ParseRuleEnter
  \/ ParseRuleReturn
  \/ ParseSymbolTypeEnter
  \/ ParseSymbolTypeReturn
  \/ ParseSymbolEnter
  \/ ParseSymbolReturn
  \/ ParseReturn
  \/ BuildGrammar
  \/ BuildGrammarFromTree
  \/ WithOptions

Spec == Init /\ [][Next]_vars

(***************************************************************************)
(* Properties.  The reference notions below are written from the textbook  *)
(* definitions, not from the resolver of the program.                      *)
(***************************************************************************)

\* the answer of the stream to a peek in the current state
Lookahead == peek(g, input, lexems)

Final == status \in {"Ok", "Err", "Panic", "Diverge"}

\* can production p derive the empty sequence, N being the nullable rule names
RECURSIVE RefNullable(_, _)
RefNullable(p, N) ==
  CASE p.k = "Symbol" -> p.s.k = "AST" /\ p.s.t \in N
    [] p.k = "Group" -> \A i \in DOMAIN p.g : RefNullable(p.g[i], N)
    [] p.k \in {"Optional", "Repeated"} -> TRUE
    [] p.k = "Switch" -> RefNullable(p.a, N) \/ RefNullable(p.b, N)

\* the nullable rule names of gr, by n rounds of the fixpoint iteration
RECURSIVE RefNullableNames(_, _, _)
RefNullableNames(gr, N, n) ==
  IF n = 0 THEN N
  ELSE RefNullableNames(gr,
         N \cup {gr.rules[k].name :
                   k \in {k \in DOMAIN gr.rules : RefNullable(gr.rules[k].production, N)}},
         n - 1)

\* the token types that can begin p, F being the pairs <<rule name, token
\* type>> known so far
RECURSIVE RefFirst(_, _, _)
RefFirst(p, F, N) ==
  CASE p.k = "Symbol" ->
         IF p.s.k = "Lexem" THEN {p.s.t}
         ELSE {q[2] : q \in {q \in F : q[1] = p.s.t}}
    [] p.k = "Group" ->
         UNION {RefFirst(p.g[i], F, N) :
                  i \in {i \in DOMAIN p.g : \A j \in 1..(i - 1) : RefNullable(p.g[j], N)}}
    [] p.k = "Optional" -> RefFirst(p.o, F, N)
    [] p.k = "Repeated" -> RefFirst(p.m, F, N)
    [] p.k = "Switch" -> RefFirst(p.a, F, N) \cup RefFirst(p.b, F, N)

RECURSIVE RefFirstSets(_, _, _, _)
RefFirstSets(gr, F, N, n) ==
  IF n = 0 THEN F
  ELSE RefFirstSets(gr,
         F \cup UNION {{<<gr.rules[k].name, t>> :
                          t \in RefFirst(gr.rules[k].production, F, N)} :
                       k \in DOMAIN gr.rules},
         N, n - 1)

\* FIRST(p) in grammar gr, closed through rule references
FIRST(gr, p) ==
  LET close(N) == RefFirst(p, RefFirstSets(gr, {}, N, Len(gr.rules)), N)
  IN close(RefNullableNames(gr, {}, Len(gr.rules)))

\* C1: whenever parse_rule("START") has returned a tree and the stream still
\* yields a token, Grammar::parse returns Err; in particular the grammar
\* START -> a rejects the input "a a", whose first token alone is a valid
\* parse
C1_TrailingTokenIsErr ==
  [][/\ (Running("parse", "wait") /\ Lookahead.tok.some) => status' = "Err"
     /\ (gid = "single_token" /\ input = <<"a", " ", "a">>) => status' /= "Ok"]_vars

\* START -> a on "a a": the tree of the first token was built, the second
\* token was taken from the stream and the parse ended in Err
C1_Witness ==
  /\ gid = "single_token"
  /\ input = <<"a", " ", "a">>
  /\ last.op = "parse"
  /\ last.frame = ParseFrame
  /\ Len(taken) = 2
  /\ status = "Err"
  /\ result = None

\* C2: Grammar::parse returns Ok only when the whole input text has been
\* consumed and no scan has found unrecognized input
C2_OkOnlyWhenInputConsumed ==
  status = "Ok" => (lexems.ok /\ lexems.cursor = ByteLen(input))

\* C3: an invocation of a declared rule that finds the stream without a
\* lookahead token ends the parse with Err, not with a panic
C3_ExhaustedStreamIsErr ==
  [][(/\ Running("parse_rule", "enter")
      /\ \E k \in DOMAIN g.rules : g.rules[k].name = Top(Engine).rule
      /\ Lookahead.st = "Ok"
      /\ ~Lookahead.tok.some)
       => status' = "Err"]_vars

\* C4: the grammar lowered from the arithmetic specification text accepts
\* "1", "1+2x3" and "1x2+3x4" and returns Err for "1+"
C4_LoweredSumGrammar ==
  (gid = "parse_ast_grammar" /\ text = RAW_GRAMMAR_SUM /\ Final) =>
    /\ input \in {<<"1">>, <<"1", "+", "2", "x", "3">>,
                  <<"1", "x", "2", "+", "3", "x", "4">>} => status = "Ok"
    /\ input = <<"1", "+">> => status = "Err"

\* the position, in characters, at which a scan from the cursor looks for a
\* token: the character boundary at the byte offset skip_ignored stops at
\* (no position if there is none)
ScanAt ==
  LET at(s1) == IF s1.panic \/ ~IsCharBoundary(input, s1.cursor) THEN {}
                ELSE {CharsBefore(input, s1.cursor)}
  IN at(skip_ignored(g, input, lexems.cursor))

\* the atoms, by index, that match at character position n
MatchingAtoms(n) ==
  {k \in DOMAIN g.atoms : Atom_match_input(g.atoms[k], input, n).some}

\* C5: the token a scan returns at a position is the one of the first atom,
\* in declared order, that matches there, with the text that atom matched,
\* whatever later atoms match; a scan returns no token only if no atom
\* matches
C5_FirstDeclaredAtomWins ==
  [][(/\ status = "idle"
      /\ status' = "idle"
      /\ last'.op \in {"peek", "next"}
      /\ ~lexems.peeked.some
      /\ lexems.cursor < ByteLen(input))
       => \A n \in ScanAt : \E hits \in {MatchingAtoms(n)} :
            IF hits = {} THEN ~last'.tok.some
            ELSE \E k \in hits :
                   /\ \A j \in hits : k <= j
                   /\ last'.tok.some
                   /\ last'.tok.v.t = g.atoms[k].name
                   /\ last'.tok.v.raw =
                        SubSeq(input, n + 1,
                               CharsBefore(input, ByteOf(input, n)
                                 + Atom_match_input(g.atoms[k], input, n).v.i))]_vars

\* atoms [">=", ">", GTS, "="] on ">=": all of ">=", ">" and GTS match at
\* the start, and the single token ">=" was produced
C5_Witness ==
  /\ gid = "atom_priority"
  /\ input = <<">", "=">>
  /\ last.op = "next"
  /\ last.tok = Some([t |-> <<">", "=">>, raw |-> <<">", "=">>])
  /\ taken = <<[t |-> <<">", "=">>, raw |-> <<">", "=">>]>>
  /\ lexems.cursor = 2
  /\ Cardinality({k \in DOMAIN g.atoms : Atom_match_input(g.atoms[k], input, 0).some}) = 3

\* the tokens the stream has produced so far
Produced == taken \o (IF lexems.peeked.some THEN <<lexems.peeked.v>> ELSE <<>>)

\* the characters of the input that lie wholly before the cursor
Passed ==
  SubSeq(input, 1, Cardinality({k \in 1..Len(input) : ByteOf(input, k) <= lexems.cursor}))

\* C6: skipping is character based: the characters the cursor of a stream
\* has passed are the texts of the tokens produced, in order, and between
\* them only characters whose ignore flag is enabled; a character whose flag
\* is disabled is never skipped
C6_OnlyIgnorableCharactersSkipped ==
  (status = "idle" /\ last.op \in {"peek", "next"}) =>
    Flatten([i \in DOMAIN Produced |-> Produced[i].raw])
      = SelectSeq(Passed, LAMBDA c : ~Ignored(g, c))

\* the alternatives, by index, declared for a rule name
Alternatives(name) == {k \in DOMAIN g.rules : g.rules[k].name = name}

\* the top frame of the call stack after the step
TopAfter == stack'[Len(stack')]

\* C7: with a lookahead token, parse_rule walks an alternative of the
\* requested name only if the type of the lookahead is in the FIRST set of
\* that alternative, and if no alternative of the name has it in its FIRST
\* set the rule fails with the token still in the stream (for a grammar
\* whose FIRST sets the resolver computes: under left recursion its
\* computation does not return)
C7_PredictiveAlternative ==
  [][(/\ Running("parse_rule", "enter")
      /\ Alternatives(Top(Engine).rule) /= {}
      /\ Lookahead.st = "Ok"
      /\ Lookahead.tok.some
      /\ status' /= "Diverge")
       => /\ status' \in {"running", "Err"}
          /\ status' = "running" =>
               \E k \in Alternatives(Top(Engine).rule) :
                 /\ Lookahead.tok.v.t \in FIRST(g, g.rules[k].production)
                 /\ Len(stack') = Len(stack) + 1
                 /\ stack'[Len(stack)].alt = k
                 /\ TopAfter = TypeFrame(g.rules[k].production)
          /\ (\A k \in Alternatives(Top(Engine).rule) :
                Lookahead.tok.v.t \notin FIRST(g, g.rules[k].production))
               => /\ status' = "Err"
                  /\ taken' = taken
                  /\ lexems'.peeked = Lookahead.tok]_vars

\* a rule with two alternatives failed on a lookahead that is in the FIRST
\* set of neither, and no token has left the stream
C7_Witness ==
  /\ last.op = "parse_rule"
  /\ last.frame.pc = "enter"
  /\ Cardinality(Alternatives(last.frame.rule)) >= 2
  /\ status = "Err"
  /\ lexems.peeked.some
  /\ \A k \in Alternatives(last.frame.rule) :
       lexems.peeked.v.t \notin FIRST(g, g.rules[k].production)
  /\ taken = <<>>

\* repetitions of "()"
IsRepetitions(s) ==
  /\ Len(s) % 2 = 0
  /\ \A i \in DOMAIN s : s[i] = (IF i % 2 = 1 THEN "(" ELSE ")")

\* C8: the grammar whose START is a Repeated group over ( and ) accepts ""
\* and every sequence of complete repetitions, and returns Err for every
\* other input over ( and ), such as "(", "()(" and "()()("
C8_RepeatedGroupLanguage ==
  (gid = "repeated_start" /\ Final) =>
    IF IsRepetitions(input) THEN status = "Ok" ELSE status = "Err"

\* C9: with the answer of the stream to a peek, walking Optional(p) goes
\* into p when there is a lookahead token in FIRST(p), and otherwise
\* returns no children with no token consumed; the children p returns are
\* the children of the Optional
C9_OptionalEntry ==
  [][/\ (/\ Running("parse_symbol_type", "enter")
         /\ Top(Engine).s.k = "Optional"
         /\ Lookahead.st = "Ok")
          => /\ status' = "running"
             /\ taken' = taken
             /\ lexems' = Lookahead.it
             /\ IF Lookahead.tok.some /\ Lookahead.tok.v.t \in FIRST(g, Top(Engine).s.o)
                THEN /\ Len(stack') = Len(stack) + 1
                     /\ TopAfter = TypeFrame(Top(Engine).s.o)
                ELSE /\ stack' = Pop(stack)
                     /\ ret' = Some(<<>>)
     /\ (/\ Running("parse_symbol_type", "wait")
         /\ Top(Engine).s.k = "Optional")
          => /\ status' = "running"
             /\ stack' = Pop(stack)
             /\ ret' = ret]_vars

\* NUMBER (. NUMBER)? on "12": the Optional was entered with the stream
\* exhausted and returned no children
C9_Witness ==
  /\ gid = "parse_optional"
  /\ input = <<"1", "2">>
  /\ last.op = "parse_symbol_type"
  /\ last.frame.pc = "enter"
  /\ last.frame.s.k = "Optional"
  /\ status = "running"
  /\ ret = Some(<<>>)
  /\ ~lexems.peeked.some
  /\ Len(taken) = 1

\* a composite production below the top of the call stack is being walked
Committed ==
  \E i \in 1..(Len(stack) - 1) :
    /\ stack[i].fn = "parse_symbol_type"
    /\ stack[i].pc = "wait"
    /\ stack[i].s.k \in {"Group", "Optional", "Repeated", "Switch"}

\* the step of the top frame is a failure: a token reference that the
\* lookahead does not match, a Switch without a lookahead, or a rule none of
\* whose alternatives has the lookahead in its FIRST set
FailsHere ==
  /\ status = "running"
  /\ stack /= <<>>
  /\ Top(Engine).pc = "enter"
  /\ Lookahead.st = "Ok"
  /\ \/ /\ Top(Engine).fn = "parse_symbol"
        /\ Top(Engine).s.k = "Lexem"
        /\ ~(Lookahead.tok.some /\ Lookahead.tok.v.t = Top(Engine).s.t)
     \/ /\ Top(Engine).fn = "parse_symbol_type"
        /\ Top(Engine).s.k = "Switch"
        /\ ~Lookahead.tok.some
     \/ /\ Top(Engine).fn = "parse_rule"
        /\ Lookahead.tok.some
        /\ Alternatives(Top(Engine).rule) /= {}
        /\ \A k \in Alternatives(Top(Engine).rule) :
             Lookahead.tok.v.t \notin FIRST(g, g.rules[k].production)

\* C10: a failure inside a production the engine has gone into ends the
\* whole parse with Err and without a tree: no frame goes on, also not an
\* Optional or a Repeated that could have been skipped; NUMBER (. NUMBER)?
\* rejects "12."
C10_NoBacktracking ==
  [][/\ (Committed /\ FailsHere)
          => (status' = "Err" /\ result' = None /\ stack' = <<>>)
     /\ (gid = "parse_optional" /\ input = <<"1", "2", ".">>) => status' /= "Ok"]_vars

\* NUMBER (. NUMBER)? on "12.": the Optional was entered on ".", both tokens
\* were consumed, the NUMBER after "." was missing and the parse ended in
\* Err without a tree
C10_Witness ==
  /\ gid = "parse_optional"
  /\ input = <<"1", "2", ".">>
  /\ last.op = "parse_symbol"
  /\ last.frame.s.k = "Lexem"
  /\ Len(taken) = 2
  /\ ~lexems.peeked.some
  /\ status = "Err"
  /\ result = None
  /\ stack = <<>>

\* C11: with the answer of the stream to a peek, walking Switch(a, b) fails
\* when no lookahead token remains; otherwise it goes into a when the
\* lookahead is in FIRST(a) and into b when it is not, whatever b begins
\* with; when the branch returns the Switch returns its children without
\* walking the other branch; c (a | b) on "cc" goes into b and fails there
\* with an ordinary Err
C11_SwitchBranch ==
  [][/\ (/\ Running("parse_symbol_type", "enter")
         /\ Top(Engine).s.k = "Switch"
         /\ Lookahead.st = "Ok")
          => IF ~Lookahead.tok.some
             THEN /\ status' = "Err"
                  /\ result' = None
             ELSE /\ status' = "running"
                  /\ taken' = taken
                  /\ lexems' = Lookahead.it
                  /\ Len(stack') = Len(stack) + 1
                  /\ TopAfter = TypeFrame(IF Lookahead.tok.v.t \in FIRST(g, Top(Engine).s.a)
                                          THEN Top(Engine).s.a
                                          ELSE Top(Engine).s.b)
     /\ (/\ Running("parse_symbol_type", "wait")
         /\ Top(Engine).s.k = "Switch")
          => /\ status' = "running"
             /\ stack' = Pop(stack)
             /\ ret' = ret
     /\ (gid = "switch_after" /\ input = <<"c", "c">>) => status' \notin {"Ok", "Panic"}]_vars

\* c (a | b) on "cc": the Switch was entered on the second c, which leads
\* neither branch; b was walked and its token reference failed with the c
\* still in the stream
C11_Witness ==
  /\ gid = "switch_after"
  /\ input = <<"c", "c">>
  /\ last.op = "parse_symbol"
  /\ last.frame.s = L(<<"b">>)
  /\ Len(taken) = 1
  /\ lexems.peeked.some
  /\ lexems.peeked.v.t = <<"c">>
  /\ status = "Err"

\* no Node of the tree has exactly one child
RECURSIVE NoSingleChild(_)
NoSingleChild(ast) ==
  ast.k = "Node" =>
    /\ Len(ast.children) /= 1
    /\ \A i \in DOMAIN ast.children : NoSingleChild(ast.children[i])

s_alpha == <<"a", "l", "p", "h", "a">>

s_dot == <<"d", "o", "t">>

s_FILE == <<"F", "I", "L", "E">>

\* the grammar of tests::parse_with_parsed_grammar: lowered from
\* RAW_GRAMMAR_FILES, spaces and newlines skipped, single-child nodes collapsed
FilesGrammarCollapsing ==
  /\ gid = "with_options"
  /\ text = RAW_GRAMMAR_FILES
  /\ g.options.ignore_whitespace
  /\ g.options.ignore_newline
  /\ g.options.bubble_intermediate

C15_WithOptionsKeepsRulesAndAtoms ==
  [][(last'.op = "with_options" /\ last.op /= "with_options")
       => /\ g'.rules = g.rules
          /\ g'.atoms = g.atoms
          /\ g'.options \in OptionsTried
          /\ g'.options /= g.options
          /\ DOMAIN g' = {"rules", "atoms", "options"}
          /\ input' = input
          /\ text' = text]_vars

\* the grammar lowered from RAW_GRAMMAR_FILES has been given the options of
\* tests::parse_with_parsed_grammar
C15_Witness ==
  /\ last.op = "with_options"
  /\ text = RAW_GRAMMAR_FILES
  /\ Len(g.rules) = 2
  /\ Len(g.atoms) = 2
  /\ g.options.ignore_whitespace
  /\ g.options.bubble_intermediate

\* every character of the identifier is an uppercase letter
IsUppercase(raw) == \A i \in DOMAIN raw : raw[i] \in Range(Upper)

\* the identifiers of a production subtree, in order
RECURSIVE Identifiers(_)
Identifiers(ast) ==
  IF ast.k = "Leaf"
  THEN IF ast.t = s_ALPHA THEN <<ast.raw>> ELSE <<>>
  ELSE Flatten([i \in DOMAIN ast.children |-> Identifiers(ast.children[i])])

\* the Symbols of a production, in order
RECURSIVE SymbolsOf(_)
SymbolsOf(p) ==
  CASE p.k = "Symbol" -> <<p.s>>
    [] p.k = "Group" -> Flatten([i \in DOMAIN p.g |-> SymbolsOf(p.g[i])])
    [] p.k = "Optional" -> SymbolsOf(p.o)
    [] p.k = "Repeated" -> SymbolsOf(p.m)
    [] p.k = "Switch" -> SymbolsOf(p.a) \o SymbolsOf(p.b)

\* the trees of the rule declarations of a specification tree, in order
RuleDeclarations(ast) ==
  SelectSeq(ast.children[1].children, LAMBDA d : d.t = s_EXP)

\* the tree that was lowered to the grammar g: the tree of the hand-built
\* case, which result keeps
LoweredTree == result.v

\* C13: lowering decides the kind of reference of an identifier of a
\* production by its case: an uppercase identifier becomes a rule reference,
\* any other identifier a token reference that retains its text, and none a
\* token reference that does not
C13_CaseDecidesReferenceKind ==
  (last.op = "parse_ast_grammar" /\ status = "idle" /\ result.some) =>
    /\ Len(g.rules) = Len(RuleDeclarations(LoweredTree))
    /\ \A k \in DOMAIN g.rules :
         \E ids \in {Identifiers(RuleDeclarations(LoweredTree)[k].children[2])} :
           SymbolsOf(g.rules[k].production) =
             [i \in DOMAIN ids |->
                IF IsUppercase(ids[i]) THEN AST(ids[i]) ELSE Lexem(ids[i], TRUE)]

\* the body of the atom declaration >n->'body'
BodyOf(declaration) == SubSeq(declaration, 6, Len(declaration) - 1)

\* C14: every atom declaration >name -> 'body' with a non-empty body without
\* a closing quote is accepted by the bootstrap grammar and lowered to the
\* pattern atom called name whose regular expression is exactly body, also
\* when the body begins with a digit, is a letter followed by other
\* characters, begins with a space, or is a punctuation atom of the notation
C14_EveryAtomBodyAccepted ==
  /\ (gid = "get_parsing_grammar" /\ input \in AtomDeclarations /\ Final) =>
       status = "Ok"
  /\ (gid = "parse_ast_grammar" /\ text \in AtomDeclarations) =>
       /\ g.rules = <<>>
       /\ g.atoms = <<Matched(<<"n">>, RegexNew(BodyOf(text)))>>

Overlapping(name, t) ==
  \E j, k \in Alternatives(name) :
    /\ j /= k
    /\ t \in FIRST(g, g.rules[j].production)
    /\ t \in FIRST(g, g.rules[k].production)

\* C17: two alternatives of one name whose FIRST sets share a token are a
\* defect of the grammar that the resolver reports: when parse_rule has to
\* choose on such a token it neither walks one of the alternatives nor
\* returns the ordinary failure Err
C17_OverlapIsReported ==
  [][(/\ Running("parse_rule", "enter")
      /\ Lookahead.st = "Ok"
      /\ Lookahead.tok.some
      /\ Overlapping(Top(Engine).rule, Lookahead.tok.v.t))
       => status' \notin {"running", "Err"}]_vars

\* some production of the grammar refers to a rule name without alternatives
RECURSIVE RefersTo(_, _)
RefersTo(p, name) ==
  CASE p.k = "Symbol" -> p.s.k = "AST" /\ p.s.t = name
    [] p.k = "Group" -> \E i \in DOMAIN p.g : RefersTo(p.g[i], name)
    [] p.k = "Optional" -> RefersTo(p.o, name)
    [] p.k = "Repeated" -> RefersTo(p.m, name)
    [] p.k = "Switch" -> RefersTo(p.a, name) \/ RefersTo(p.b, name)

\* C18: a reference to a rule name without declared alternatives is a fatal
\* error of the grammar: parse_rule called with such a name aborts, and a
\* parse of START -> (ITEM a), whose only production begins with the
\* undeclared ITEM, aborts for every input instead of returning Ok or Err
C18_UndefinedReferenceAborts ==
  [][/\ (/\ Running("parse_rule", "enter")
         /\ Alternatives(Top(Engine).rule) = {})
          => status' = "Panic"
     /\ (/\ gid = "undefined_reference"
         /\ RefersTo(g.rules[1].production, s_ITEM)
         /\ Alternatives(s_ITEM) = {}
         /\ status = "running")
          => status' \in {"running", "Panic"}]_vars

\* C19: peek is idempotent and does not advance the stream: a peek that
\* follows a peek returns the same token and leaves the stream as it is, the
\* next that follows a peek returns the token of the peek, and after any
\* peek the stream yields to next exactly what it would have yielded without
\* the peek and is left in the same state, so the tokens next yields do not
\* depend on interleaved peeks
C19_PeekIsIdempotent ==
  [][/\ (status = "idle" /\ last.op = "peek" /\ last'.op = "peek") =>
          /\ status' = "idle"
          /\ last'.tok = last.tok
          /\ lexems' = lexems
          /\ taken' = taken
     /\ (status = "idle" /\ last.op = "peek" /\ last'.op = "next") =>
          /\ status' = "idle"
          /\ last'.tok = last.tok
     /\ (status = "idle" /\ last'.op = "peek") =>
          \E direct \in {next(g, input, lexems)} :
            IF direct.st = "Panic" THEN status' = "Panic"
            ELSE /\ status' = "idle"
                 /\ last'.tok = direct.tok
                 /\ \E after \in {next(g, input, lexems')} :
                      /\ after.st = "Ok"
                      /\ after.tok = direct.tok
                      /\ after.it = direct.it]_vars

\* ( \n 1234 space ): after the token ( was taken, a peek has returned
\* 1234, which the stream keeps for the next call; no further token was taken
C19_Witness ==
  /\ gid = "combined_lexem_iter"
  /\ input = <<"(", "\n", "1", "2", "3", "4", " ", ")">>
  /\ status = "idle"
  /\ last.op = "peek"
  /\ last.tok.some
  /\ last.tok.v.raw = <<"1", "2", "3", "4">>
  /\ lexems.peeked = last.tok
  /\ Len(taken) = 1

\* C20: the error state of the stream is unrecoverable: once a scan has
\* found no matching atom, every later peek and every later next of the
\* stream returns no token, takes nothing and leaves the stream in the error
\* state
C20_ErrorStateIsUnrecoverable ==
  [][(/\ status = "idle"
      /\ ~lexems.ok
      /\ last'.op \in {"peek", "next"})
       => /\ status' = "idle"
          /\ ~last'.tok.some
          /\ ~lexems'.ok
          /\ ~lexems'.peeked.some
          /\ lexems'.cursor = lexems.cursor
          /\ taken' = taken]_vars

\* START -> a on "a#a": the token a was taken, the scan at # found no atom,
\* and a call on the stream in its error state has returned no token with
\* the cursor still in front of the rest of the input
C20_Witness ==
  /\ gid = "single_token"
  /\ input = <<"a", "#", "a">>
  /\ status = "idle"
  /\ last.op \in {"peek", "next"}
  /\ ~last.tok.some
  /\ ~lexems.ok
  /\ lexems.cursor = 1
  /\ Len(taken) = 1

\* the Leaf nodes of a tree, in order
RECURSIVE Leaves(_)
Leaves(ast) ==
  IF ast.k = "Leaf" THEN <<ast>>
  ELSE Flatten([i \in DOMAIN ast.children |-> Leaves(ast.children[i])])

\* the token types the productions of the grammar refer to with the given
\* include_raw flag
ReferredTypes(gr, flag) ==
  {sy.t : sy \in {sy \in UNION {Range(SymbolsOf(gr.rules[k].production)) : k \in DOMAIN gr.rules} :
                    sy.k = "Lexem" /\ sy.include_raw = flag}}

\* C21: without the collapsing of single-child nodes, a token reference that
\* matches the lookahead takes the token and returns a Leaf with the type
\* and the text of the token if it is flagged include_raw and no node if it
\* is not; the production around it gets exactly that; and in a grammar
\* whose token types are each referred to with one flag only, the Leaf nodes
\* of a returned tree are the tokens taken of the include_raw types, in
\* order
C21_LeafOnlyForRetainedToken ==
  [][~g.options.bubble_intermediate =>
       /\ (/\ Running("parse_symbol", "enter")
           /\ Top(Engine).s.k = "Lexem"
           /\ Lookahead.st = "Ok"
           /\ Lookahead.tok.some
           /\ Lookahead.tok.v.t = Top(Engine).s.t)
            => /\ status' = "running"
               /\ taken' = Append(taken, Lookahead.tok.v)
               /\ stack' = Pop(stack)
               /\ ret' = Some(IF Top(Engine).s.include_raw
                              THEN Some([k |-> "Leaf", t |-> Lookahead.tok.v.t,
                                         raw |-> Lookahead.tok.v.raw])
                              ELSE None)
       /\ (/\ Running("parse_symbol_type", "wait")
           /\ Top(Engine).s.k = "Symbol"
           /\ Top(Engine).s.s.k = "Lexem")
            => ret' = Some(IF Top(Engine).s.s.include_raw THEN <<ret.v.v>> ELSE <<>>)
       /\ (/\ status' = "Ok"
           /\ ReferredTypes(g, TRUE) \cap ReferredTypes(g, FALSE) = {})
            => Leaves(result'.v) =
                 LET kept == SelectSeq(taken', LAMBDA a : a.t \in ReferredTypes(g, TRUE))
                 IN [i \in DOMAIN kept |-> [k |-> "Leaf", t |-> kept[i].t, raw |-> kept[i].raw]]]_vars

\* the bootstrap grammar on RAW_GRAMMAR_SUM: the token -> was taken through a
\* reference without include_raw and no node was returned for it
C21_Witness ==
  /\ gid = "get_parsing_grammar"
  /\ input = RAW_GRAMMAR_SUM
  /\ status = "running"
  /\ last.op = "parse_symbol"
  /\ last.frame.s = L(<<"-", ">">>)
  /\ ret = Some(None)
  /\ taken /= <<>>
  /\ taken[Len(taken)].t = <<"-", ">">>

\* a production and the productions inside it
RECURSIVE SubProductions(_)
SubProductions(p) ==
  {p} \cup
    CASE p.k = "Symbol" -> {}
      [] p.k = "Group" -> UNION {SubProductions(p.g[i]) : i \in DOMAIN p.g}
      [] p.k = "Optional" -> SubProductions(p.o)
      [] p.k = "Repeated" -> SubProductions(p.m)
      [] p.k = "Switch" -> SubProductions(p.a) \cup SubProductions(p.b)

\* the productions of the grammar of the caller and the productions inside
\* them
ProductionsOfGrammar ==
  UNION {SubProductions(g.rules[k].production) : k \in DOMAIN g.rules}

\* the members of a Group up to and including the first one that is not
\* nullable
LeadingMembers(p) ==
  {i \in DOMAIN p.g : \A j \in 1..(i - 1) : nullable(p.g[j])}

\* C22: nullable and first_symbol follow the structural definition: Symbol
\* and Group are never nullable, Optional and Repeated always are, a Switch
\* is nullable iff one of its branches is; first_symbol of a Symbol is the
\* Symbol, of a Group the leading symbols of its members up to and including
\* the first member that is not nullable, of Optional and Repeated those of
\* the inner production, of a Switch those of the left branch followed by
\* those of the right branch
C22_StructuralNullableAndFirst ==
  \A p \in ProductionsOfGrammar :
    /\ p.k \in {"Symbol", "Group"} => ~nullable(p)
    /\ p.k \in {"Optional", "Repeated"} => nullable(p)
    /\ p.k = "Switch" => (nullable(p) <=> (nullable(p.a) \/ nullable(p.b)))
    /\ p.k = "Symbol" => first_symbol(p) = <<p.s>>
    /\ p.k = "Group" =>
         first_symbol(p) =
           Flatten([i \in 1..Cardinality(LeadingMembers(p)) |-> first_symbol(p.g[i])])
    /\ p.k = "Optional" => first_symbol(p) = first_symbol(p.o)
    /\ p.k = "Repeated" => first_symbol(p) = first_symbol(p.m)
    /\ p.k = "Switch" => first_symbol(p) = first_symbol(p.a) \o first_symbol(p.b)

\* (a)? ((b)?) c: the leading symbols are a and b, and c, behind the Group
\* of an Optional, is not among them
C22_Witness ==
  /\ gid = "nullable_prefix"
  /\ status = "Err"
  /\ input = <<"c">>
  /\ first_symbol(g.rules[1].production) = <<L(<<"a">>), L(<<"b">>)>>
  /\ ~nullable(g.rules[1].production.g[2])
  /\ nullable(g.rules[1].production.g[1])

\* the rule names a grammar declares or refers to
RuleNames(gr) ==
  {gr.rules[k].name : k \in DOMAIN gr.rules}
    \cup {sy.t : sy \in {sy \in UNION {Range(SymbolsOf(gr.rules[k].production)) : k \in DOMAIN gr.rules} :
                           sy.k = "AST"}}

\* the token types of the atoms of a grammar
TokenTypes(gr) == {gr.atoms[i].name : i \in DOMAIN gr.atoms}

\* the rule names that lead a production of the name: those a walk of the
\* name can reach before a token is consumed
LeadingReferences(gr, name) ==
  {sy.t : sy \in {sy \in UNION {Range(first_symbol(gr.rules[k].production)) :
                                  k \in {k \in DOMAIN gr.rules : gr.rules[k].name = name}} :
                    sy.k = "AST"}}

\* the names reachable from the names of N through leading references, in at
\* most n steps
RECURSIVE LeadingReach(_, _, _)
LeadingReach(gr, N, n) ==
  IF n = 0 THEN N
  ELSE LeadingReach(gr, N \cup UNION {LeadingReferences(gr, m) : m \in N}, n - 1)

\* some rule reaches itself through leading references
LeftRecursive(gr) ==
  \E name \in RuleNames(gr) :
    name \in LeadingReach(gr, LeadingReferences(gr, name), Cardinality(RuleNames(gr)))

\* C23: in a grammar without left recursion the computation of a FIRST set
\* returns: first_from_rule for every rule name the grammar declares or
\* refers to, also one without alternatives, and production_matches_lexem
\* for every production of the grammar and every token type (stated for the
\* grammar of every state outside a running parse, which does not change the
\* grammar)
C23_FirstSetTerminates ==
  (status /= "running" /\ ~LeftRecursive(g)) =>
    /\ \A name \in RuleNames(g) : ~first_from_rule(g, name, MaxFirstDepth).div
    /\ \A k \in DOMAIN g.rules : \A t \in TokenTypes(g) :
         ~production_matches_lexem(g, g.rules[k].production, t, MaxFirstDepth).div

\* START -> (ITEM a) without a rule ITEM: the FIRST set of the undeclared
\* name was computed and is empty, so that the parse of "a" returned Err
C23_Witness ==
  /\ gid = "undefined_reference"
  /\ input = <<"a">>
  /\ status = "Err"
  /\ ~LeftRecursive(g)
  /\ first_from_rule(g, s_ITEM, MaxFirstDepth) = FirstResult(FALSE, <<>>)

\* C24: every parse of a grammar without left recursion runs to completion:
\* no parse is cut off as one that does not return, and every token the
\* stream hands out has moved the cursor forward, also a token of an atom
\* able to match the empty string, so that a stream never hands out more
\* tokens than its input has bytes and every Repeated loop ends
C24_EveryParseCompletes ==
  ~LeftRecursive(g) =>
    /\ status /= "Diverge"
    /\ \A i \in DOMAIN taken : taken[i].raw /= <<>>
    /\ Len(taken) <= ByteLen(input)

\* C25: a parse_rule that returns a tree has consumed at least one token
\* since it chose its alternative, whether or not the production of the
\* alternative is nullable; and a parse_rule whose lookahead is in the FIRST
\* set of no alternative of its name fails without consuming a token
C25_RuleConsumesAToken ==
  [][/\ Running("parse_rule", "wait")
          => /\ ret.some
             /\ Len(taken) > Top(Engine).mark
             /\ status' = "running"
             /\ stack' = Pop(stack)
             /\ ret'.some
             /\ taken' = taken
     /\ (/\ Running("parse_rule", "enter")
         /\ Alternatives(Top(Engine).rule) /= {}
         /\ Lookahead.st = "Ok"
         /\ Lookahead.tok.some
         /\ \A k \in Alternatives(Top(Engine).rule) :
              Lookahead.tok.v.t \notin FIRST(g, g.rules[k].production))
          => /\ status' = "Err"
             /\ taken' = taken]_vars

\* START -> ( '(' ')' )*, a nullable production: parse_rule is about to
\* return its tree, two tokens after it chose the alternative
C25_Witness ==
  /\ gid = "repeated_start"
  /\ Running("parse_rule", "wait")
  /\ nullable(g.rules[Top(Engine).alt].production)
  /\ ret.some
  /\ Top(Engine).mark = 0
  /\ Len(taken) = 2

\* the numbers of a set, in ascending order
RECURSIVE Ascending(_)
Ascending(S) ==
  IF S = {} THEN <<>>
  ELSE LET m == CHOOSE m \in S : \A n \in S : m <= n
       IN <<m>> \o Ascending(S \ {m})

\* the identifiers written in the characters a..b of a text, in order
WordsOf(t, a, b) ==
  LET starts == Ascending({h \in a..b : t[h] \in Word /\ (h = a \/ t[h - 1] \notin Word)})
      end(h) == CHOOSE j \in h..b :
                  /\ \A m \in h..j : t[m] \in Word
                  /\ (j = b \/ t[j + 1] \notin Word)
  IN [i \in DOMAIN starts |-> SubSeq(t, starts[i], end(starts[i]))]

\* the declarations written in a specification text, in order, read off the
\* text at its arrows: the name in front of the arrow, whether a > marks it
\* as an atom declaration, and the identifiers between the arrow and the
\* next declaration
TextDeclarations(t) ==
  LET arrows == Ascending({i \in 1..(Len(t) - 1) : t[i] = "-" /\ t[i + 1] = ">"})
      last_of(i) == CHOOSE j \in 1..(i - 1) :
                      t[j] /= " " /\ \A h \in (j + 1)..(i - 1) : t[h] = " "
      first_of(j) == CHOOSE h \in 1..j :
                       /\ \A m \in h..j : t[m] \in Word
                       /\ (h = 1 \/ t[h - 1] \notin Word)
      from(k) == first_of(last_of(arrows[k]))
      upto(k) == IF k = Len(arrows) THEN Len(t) ELSE from(k + 1) - 1
  IN [k \in DOMAIN arrows |->
        [atom |-> from(k) > 1 /\ t[from(k) - 1] = ">",
         name |-> SubSeq(t, from(k), last_of(arrows[k])),
         body |-> WordsOf(t, arrows[k] + 2, upto(k))]]

\* C26: the grammar lowered from a specification text has one Rule per rule
\* declaration of the text, in the order of the text, each with the name and
\* the identifiers of its declaration, and one pattern atom per atom
\* declaration, in the order of the text, each with the name of its
\* declaration
C26_LoweringKeepsDeclarationOrder ==
  [][(gid = "get_parsing_grammar" /\ status = "Ok" /\ gid' = "parse_ast_grammar")
       => LET holds(d) ==
                LET rules == SelectSeq(d, LAMBDA x : ~x.atom)
                    atoms == SelectSeq(d, LAMBDA x : x.atom)
                    ids(p) == [i \in DOMAIN SymbolsOf(p) |-> SymbolsOf(p)[i].t]
                IN /\ Len(g'.rules) = Len(rules)
                   /\ \A k \in DOMAIN rules :
                        /\ g'.rules[k].name = rules[k].name
                        /\ ids(g'.rules[k].production) = rules[k].body
                   /\ Len(g'.atoms) = Len(atoms)
                   /\ \A k \in DOMAIN atoms :
                        /\ g'.atoms[k].k = "Matched"
                        /\ g'.atoms[k].name = atoms[k].name
          IN holds(TextDeclarations(input))]_vars

\* the grammar lowered from tests::RAW_GRAMMAR_SUM: seven rules, the two
\* alternatives of NUMBER in the order of the text, and five atoms, pluss
\* first and num last
C26_Witness ==
  /\ gid = "parse_ast_grammar"
  /\ text = RAW_GRAMMAR_SUM
  /\ last.op = "parse_ast_grammar"
  /\ Len(g.rules) = 7
  /\ g.rules[4] = Rule(<<"N","U","M","B","E","R">>, Group(<<Symbol(Lexem(<<"n","u","m">>, TRUE))>>))
  /\ g.rules[5].name = <<"N","U","M","B","E","R">>
  /\ Len(SymbolsOf(g.rules[5].production)) = 2
  /\ Len(g.atoms) = 5
  /\ g.atoms[1].name = <<"p","l","u","s","s">>
  /\ g.atoms[5].name = <<"n","u","m">>

\* the bytes of the tokens a stream has handed out or holds as lookahead
TokenBytes ==
  ByteLen(Flatten([i \in DOMAIN taken |-> taken[i].raw]))
    + (IF lexems.peeked.some THEN ByteLen(lexems.peeked.v.raw) ELSE 0)

\* C27: the grammar that parse_ast_grammar returns has whitespace skipping and
\* newline skipping disabled, although the bootstrap grammar that parsed the
\* text has both enabled; and as long as with_options has not been applied a
\* stream of the lowered grammar skips nothing: its cursor is the number of
\* bytes of its tokens
C27_LoweredGrammarHasDefaultOptions ==
  [][/\ gid' = "parse_ast_grammar"
          => /\ g'.options.ignore_whitespace = FALSE
             /\ g'.options.ignore_newline = FALSE
             /\ lexems'.cursor = TokenBytes'
     /\ (gid = "get_parsing_grammar" /\ gid' = "parse_ast_grammar")
          => /\ g.options.ignore_whitespace
             /\ g.options.ignore_newline]_vars

\* the grammar lowered from tests::RAW_GRAMMAR_FILES, options untouched, has
\* read fileA of "fileA fileB" and stopped in front of the space, which it
\* does not skip
C27_Witness ==
  /\ gid = "parse_ast_grammar"
  /\ text = RAW_GRAMMAR_FILES
  /\ input = <<"f","i","l","e","A"," ","f","i","l","e","B">>
  /\ g.options = [ignore_whitespace |-> FALSE, ignore_newline |-> FALSE,
                  bubble_intermediate |-> FALSE]
  /\ Len(taken) = 1
  /\ lexems.cursor = 5
  /\ ~lexems.peeked.some
  /\ lexems.ok = FALSE

\* C28: a peek or a next of a token stream never aborts and never moves the
\* cursor back; afterwards the cursor is at most the length of the input in
\* bytes and lies on a character boundary; and when the call has scanned the
\* input, skipping has looked at the character at the byte offset of the
\* cursor: the cursor rests at the end of the input or at a character that
\* is not ignorable
C28_CursorStaysOnCharacterBoundary ==
  [][(status = "idle" /\ last'.op \in {"peek", "next"})
       => /\ status' /= "Panic"
          /\ lexems'.cursor >= lexems.cursor
          /\ lexems'.cursor <= ByteLen(input)
          /\ IsCharBoundary(input, lexems'.cursor)
          /\ (~lexems.peeked.some /\ lexems.cursor < ByteLen(input))
               => \/ lexems'.cursor = ByteLen(input)
                  \/ ~Ignored(g, input[CharsBefore(input, lexems'.cursor) + 1])]_vars

====
